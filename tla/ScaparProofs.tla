---------------------------- MODULE ScaparProofs ----------------------------
(***************************************************************************)
(* Theorems about scapar_finalize, about printing, and about a program     *)
(* that parses, prints and finalises, for every tree of sections, every    *)
(* file and any number of calls.                                           *)
(*                                                                         *)
(* Finalisation, where the elements of vectors hold no vectors of sections *)
(* themselves: no block is given back twice, no descriptor is followed     *)
(* when it is gone, owners are given back last, and what is left at the    *)
(* end are strings in elements of vectors that no mark tells of.           *)
(*                                                                         *)
(* Printing: base addresses are restored, and the last elements of vectors *)
(* are shown as the file gave them.                                        *)
(***************************************************************************)
EXTENDS Scapar, SectionParserProofs

(* The sections that describe elements, and those within them, describe no *)
(* elements again.  Otherwise descriptors dangle: run finalizer_nested.    *)
Elements(D) ==
  \A s \in Section : \A k \in DOMAIN Schema[s] :
    /\ Schema[s][k].type = "VSEC" => Schema[s][k].child \in D /\ s \notin D
    /\ Schema[s][k].type = "SEC" /\ s \in D => Schema[s][k].child \in D
NoVectorInElement == \E D \in SUBSET Section : Elements(D)
InElements == CHOOSE D \in SUBSET Section : Elements(D)

-----------------------------------------------------------------------------
(* The calls in progress *)

ToVisit(f) == {f.todo[i] : i \in 1..Len(f.todo)}
Distinct(q) == \A i, j \in 1..Len(q) : q[i] = q[j] => i = j

SecFrame == [call : {"sec"}, sec : Section, base : [obj : Path, shifted : BOOLEAN],
             destroy : BOOLEAN, release : BOOLEAN, todo : Seq(Kw)]
VecFrame == [call : {"vec"}, sec : Section, obj : Path, kw : Kw, next : Nat \ {0}]

(* f, called by p: a section in a section, *)
InSectionCall(p, f) ==
  /\ p.call = "sec" /\ f.call = "sec"
  /\ f.destroy = p.destroy /\ f.release = p.destroy
  /\ \E k \in Kw :
       /\ Owns(p.sec, k, f.sec) /\ k \notin ToVisit(p)
       /\ ~f.base.shifted => ~p.base.shifted /\ f.base.obj = Append(p.base.obj, <<k, 0>>)
(* the elements of a vector that is being visited, *)
VectorCall(p, f) ==
  /\ p.call = "sec" /\ f.call = "vec"
  /\ p.destroy /\ ~p.base.shifted /\ f.obj = p.base.obj
  /\ p.todo # <<>> /\ f.kw = Head(p.todo)
  /\ Owns(p.sec, f.kw, f.sec) /\ Schema[p.sec][f.kw].type = "VSEC"
(* or one of these elements. *)
ElementCall(p, f) ==
  /\ p.call = "vec" /\ f.call = "sec" /\ f.sec = p.sec
  /\ ~f.destroy /\ ~f.release /\ ~f.base.shifted
  /\ p.next > 1 /\ f.base.obj = Append(p.obj, <<p.kw, p.next - 1>>)

CallOK(i) ==
  /\ calls[i].call = "sec" =>
       /\ Distinct(calls[i].todo) /\ ToVisit(calls[i]) \subseteq DOMAIN Schema[calls[i].sec]
       /\ ~calls[i].destroy \/ calls[i].base.shifted => calls[i].sec \in InElements
  /\ calls[i].call = "vec" => calls[i].sec \in InElements
  /\ i = 1 => /\ calls[i].call = "sec" /\ calls[i].sec = Top
              /\ calls[i].destroy /\ ~calls[i].release
              /\ calls[i].base = Own(<<>>)
  /\ i > 1 => \/ InSectionCall(calls[i - 1], calls[i])
              \/ VectorCall(calls[i - 1], calls[i])
              \/ ElementCall(calls[i - 1], calls[i])
  /\ \A j \in 1..(i - 1) :
       \/ Age[calls[j].sec] < Age[calls[i].sec]
       \/ j = i - 1 /\ calls[j].call = "vec" /\ calls[j].sec = calls[i].sec

CallsOK ==
  /\ calls \in Seq(SecFrame \cup VecFrame)
  /\ \A i \in 1..Len(calls) : CallOK(i)

-----------------------------------------------------------------------------
(* What registration allocated *)

Destroys(f, s) == f.call = "sec" /\ f.destroy /\ f.sec = s
(* Section s has been given back, when the blocks S have. *)
EndedIn(S, s) == Descriptor(s) \in S \/ (s = Top /\ ItemArray(Top) \in S)
Ended(s)      == EndedIn(freed, s)
(* Item k of section s has had its turn, when q are the calls in progress. *)
PassedBy(S, q, s, k) ==
  EndedIn(S, s) \/ \E i \in 1..Len(q) : Destroys(q[i], s) /\ k \notin ToVisit(q[i])
Passed(s, k) == PassedBy(freed, calls, s, k)

NamesOK ==
  \A s \in Section : \A k \in DOMAIN Schema[s] : Name(s, k) \in freed <=> Passed(s, k)
ChildrenOK ==
  \A s, c \in Section : \A k \in Kw : Owns(s, k, c) =>
    /\ Descriptor(c) \in freed => Passed(s, k)
    /\ Passed(s, k) => \/ Descriptor(c) \in freed
                       \/ \E i \in 1..Len(calls) : Destroys(calls[i], c)
ArraysOK ==
  /\ Descriptor(Top) \notin freed
  /\ \A s \in Section \ {Top} :
       ItemArray(s) \in freed <=> Descriptor(s) \in freed /\ ItemOrder[s] # <<>>
(* No call in progress is for a section that has ended, but for the second *)
(* call of scapar_finalize.                                                *)
LiveOK ==
  \A i \in 1..Len(calls) :
    Ended(calls[i].sec) => calls[i].sec = Top /\ Len(calls) = 1 /\ calls[i].todo = <<>>

-----------------------------------------------------------------------------
(* What parsing allocated *)

OwnContent(o, k) == {Str_(o, k), Vec(o, k), Table_(o, k), UserData(o, k)}
SpentIn(S, o, k) == OwnContent(o, k) \cap S # {}
Spent(o, k) == SpentIn(freed, o, k)
(* o is, or is within, element n of keyword k of object p. *)
Below_(o, p, k, n) ==
  Len(p) < Len(o) /\ o[Len(p) + 1] = <<k, n>> /\ \A j \in 1..Len(p) : o[j] = p[j]

Visits(i) == calls[i].call = "sec" /\ ~calls[i].base.shifted
(* Elements before the n-th of the vector frame i has reached are visited. *)
VisitedElement(i, k, n) ==
  /\ k = Head(calls[i].todo) /\ Schema[calls[i].sec][k].type = "VSEC"
  /\ i < Len(calls) /\ calls[i + 1].call = "vec" /\ n < calls[i + 1].next
VectorGone(i, k) ==
  /\ k = Head(calls[i].todo) /\ Schema[calls[i].sec][k].type = "VSEC"
  /\ Vec(calls[i].base.obj, k) \in freed

(* Nothing at or below a keyword that a call has yet to visit is freed.    *)
Ahead(i) ==
  \A k \in ToVisit(calls[i]) :
    /\ Spent(calls[i].base.obj, k) => i = Len(calls) /\ VectorGone(i, k)
    /\ \A o \in Path, l \in Kw, n \in Nat :
         Below_(o, calls[i].base.obj, k, n) /\ Spent(o, l) =>
           VectorGone(i, k) \/ VisitedElement(i, k, n)
(* A call visits what its callers have passed.                             *)
Behind(i, j) ==
  /\ Len(calls[i].base.obj) < Len(calls[j].base.obj)
  /\ \A k \in ToVisit(calls[i]), n \in Nat :
       Below_(calls[j].base.obj, calls[i].base.obj, k, n) => VisitedElement(i, k, n)
ContentsOK ==
  /\ \A i \in 1..Len(calls) : Visits(i) => Ahead(i)
  /\ \A j \in 1..Len(calls) : \A i \in 1..(j - 1) : Visits(i) /\ Visits(j) => Behind(i, j)
  /\ \A i \in 1..Len(calls) : calls[i].call = "vec" =>
       Vec(calls[i].obj, calls[i].kw) \in Contents \ freed

-----------------------------------------------------------------------------
PhaseOK ==
  /\ phase = "program" => calls = <<>> /\ freed = {} /\ misfreed = {} /\ finals = 0
  /\ phase = "done" => calls = <<>>
  /\ phase # "program" /\ (phase = "done" \/ finals > 1) =>
       ItemOrder[Top] = <<>> \/ ItemArray(Top) \in freed
  /\ finals \in Nat /\ fault # "stale"
  /\ phase # "program" => finals >= 1
  /\ phase = "finalize" => calls # <<>>

FinInv ==
  /\ CallsOK /\ PhaseOK
  /\ NamesOK /\ ChildrenOK /\ ArraysOK /\ LiveOK
  /\ ContentsOK /\ FreedOnce

-----------------------------------------------------------------------------
(* Constants *)

LEMMA ElementsFacts ==
  ASSUME NoVectorInElement
  PROVE  InElements \subseteq Section /\ Elements(InElements)
BY DEF NoVectorInElement, InElements

(* The item array holds every keyword once. *)
LEMMA ItemOrderFacts ==
  ASSUME NEW s \in Section
  PROVE  /\ ItemOrder[s] \in Seq(Kw) /\ Distinct(ItemOrder[s])
         /\ {ItemOrder[s][i] : i \in 1..Len(ItemOrder[s])} = DOMAIN Schema[s]
<1> DEFINE q == ItemOrder[s]
           T == DOMAIN Schema[s]
<1>1. q \in Seq(Kw) /\ Len(q) = Cardinality(T) /\ {q[i] : i \in 1..Len(q)} = T
  BY LayoutAssumption DEF Listed
<1> HIDE DEF q, T
<1>2. q \in Surjection(1..Len(q), T)
  <2>1. q \in [1..Len(q) -> T]
    BY <1>1
  <2> QED BY <1>1, <2>1 DEF Surjection
<1>3. Len(q) \in Nat /\ IsFiniteSet(1..Len(q)) /\ Cardinality(1..Len(q)) = Len(q)
  <2>1. Len(q) \in Nat
    BY <1>1
  <2> QED BY <2>1, FS_Interval
<1>4. q \in Injection(1..Len(q), T)
  BY <1>1, <1>2, <1>3, FS_Surjection
<1> QED BY <1>1, <1>4 DEF Distinct, Injection, IsInjective, q, T

(* The blocks of memory are told apart by their kinds and their owners.    *)
LEMMA BlocksDiffer ==
  /\ \A s : Descriptor(s)[1] = "descriptor" /\ ItemArray(s)[1] = "items"
  /\ \A s, k : Name(s, k)[1] = "name"
  /\ \A o, k : /\ Str_(o, k)[1] = "string" /\ Vec(o, k)[1] = "vec"
               /\ Table_(o, k)[1] = "table" /\ UserData(o, k)[1] = "user"
  /\ FileHandle[1] = "file" /\ EndingMark[1] = "mark"
  /\ \A s, t : Descriptor(s) = Descriptor(t) => s = t
  /\ \A s, t : ItemArray(s) = ItemArray(t) => s = t
  /\ \A s, t, k, l : Name(s, k) = Name(t, l) => s = t /\ k = l
  /\ \A o, p, k, l : /\ Str_(o, k) = Str_(p, l) => o = p /\ k = l
                     /\ Vec(o, k) = Vec(p, l) => o = p /\ k = l
                     /\ Table_(o, k) = Table_(p, l) => o = p /\ k = l
                     /\ UserData(o, k) = UserData(p, l) => o = p /\ k = l
BY DEF Descriptor, ItemArray, Name, Str_, Vec, Table_, UserData, FileHandle, EndingMark

ContentKind == {"string", "vec", "table", "user"}

LEMMA ContentKinds ==
  /\ \A b \in Contents : b[1] \in ContentKind
  /\ \A o, k : \A b \in OwnContent(o, k) : b[1] \in ContentKind
BY BlocksDiffer DEF Contents, OwnContent, ContentKind

LEMMA BlocksAllocated ==
  /\ \A s \in Section \ {Top} : Descriptor(s) \in Allocated
  /\ \A s \in Section : \A k \in DOMAIN Schema[s] : Name(s, k) \in Allocated
  /\ \A s \in Section : ItemOrder[s] # <<>> => ItemArray(s) \in Allocated
  /\ Contents \subseteq Allocated /\ Closed \subseteq Allocated
<1>1. Registered \subseteq Allocated /\ Contents \subseteq Allocated
  BY DEF Allocated
<1>2. \A s \in Section \ {Top} : Descriptor(s) \in Registered
  BY DEF Registered
<1>3. \A s \in Section : \A k \in DOMAIN Schema[s] : Name(s, k) \in Registered
  BY DEF Registered
<1>4. ASSUME NEW s \in Section, ItemOrder[s] # <<>>
      PROVE  ItemArray(s) \in Registered
  <2>1. DOMAIN Schema[s] # {}
    <3>1. ItemOrder[s] \in Seq(Kw) /\ 1 \in 1..Len(ItemOrder[s])
      BY <1>4, ItemOrderFacts
    <3>2. ItemOrder[s][1] \in {ItemOrder[s][i] : i \in 1..Len(ItemOrder[s])}
      BY <3>1
    <3> QED BY <3>2, ItemOrderFacts
  <2> QED BY <2>1 DEF Registered
<1>5. Closed \subseteq Registered
  BY DEF Closed, Registered
<1> QED BY <1>1, <1>2, <1>3, <1>4, <1>5

(* One keyword less to visit *)
Advanced(f) == [f EXCEPT !.todo = Tail(@)]

LEMMA AdvanceFacts ==
  ASSUME NEW f \in SecFrame, f.todo # <<>>, Distinct(f.todo)
  PROVE  /\ Advanced(f) \in SecFrame /\ Distinct(Advanced(f).todo)
         /\ ToVisit(Advanced(f)) = ToVisit(f) \ {Head(f.todo)}
         /\ Head(f.todo) \in ToVisit(f)
         /\ Advanced(f).call = f.call /\ Advanced(f).sec = f.sec
         /\ Advanced(f).base = f.base /\ Advanced(f).destroy = f.destroy
         /\ Advanced(f).release = f.release
<1>1. PICK q : q = f.todo
  OBVIOUS
<1>2. PICK r : r = Tail(q)
  OBVIOUS
<1>3. /\ q \in Seq(Kw) /\ Len(q) \in Nat \ {0} /\ r \in Seq(Kw) /\ Len(r) = Len(q) - 1
      /\ \A i \in 1..Len(r) : r[i] = q[i + 1]
      /\ Head(q) = q[1]
  <2>1. q \in Seq(Kw) /\ q # <<>>
    BY <1>1 DEF SecFrame
  <2> QED BY <1>2, <2>1
<1>4. /\ Advanced(f) \in SecFrame /\ Advanced(f).todo = r
      /\ Advanced(f).call = f.call /\ Advanced(f).sec = f.sec
      /\ Advanced(f).base = f.base /\ Advanced(f).destroy = f.destroy
      /\ Advanced(f).release = f.release
  BY <1>1, <1>2, <1>3 DEF Advanced, SecFrame
<1>5. Distinct(r)
  <2> SUFFICES ASSUME NEW i \in 1..Len(r), NEW j \in 1..Len(r), r[i] = r[j] PROVE i = j
    BY DEF Distinct
  <2>1. i + 1 \in 1..Len(q) /\ j + 1 \in 1..Len(q) /\ q[i + 1] = q[j + 1]
    BY <1>3
  <2>2. i + 1 = j + 1
    BY <1>1, <2>1 DEF Distinct
  <2> QED BY <1>3, <2>2
<1>6. {r[i] : i \in 1..Len(r)} = {q[i] : i \in 1..Len(q)} \ {q[1]}
  <2>1. ASSUME NEW i \in 1..Len(r)
        PROVE  r[i] \in {q[j] : j \in 1..Len(q)} /\ r[i] # q[1]
    <3>1. i + 1 \in 1..Len(q) /\ 1 \in 1..Len(q) /\ i + 1 # 1 /\ r[i] = q[i + 1]
      BY <1>3
    <3> QED BY <1>1, <3>1 DEF Distinct
  <2>2. ASSUME NEW i \in 1..Len(q), q[i] # q[1]
        PROVE  q[i] \in {r[j] : j \in 1..Len(r)}
    <3>1. i - 1 \in 1..Len(r) /\ (i - 1) + 1 = i
      BY <1>3, <2>2
    <3>2. r[i - 1] = q[i]
      BY <1>3, <3>1
    <3> QED BY <3>1, <3>2
  <2> QED BY <2>1, <2>2
<1>7. q[1] \in {q[i] : i \in 1..Len(q)}
  BY <1>3
<1>8. /\ Distinct(Advanced(f).todo)
      /\ ToVisit(Advanced(f)) = {r[i] : i \in 1..Len(r)}
      /\ ToVisit(f) = {q[i] : i \in 1..Len(q)} /\ Head(f.todo) = q[1]
  BY <1>1, <1>3, <1>4, <1>5 DEF ToVisit
<1> QED BY <1>4, <1>6, <1>7, <1>8

-----------------------------------------------------------------------------
(* The stack of calls *)

CallFrame == SecFrame \cup VecFrame

LEMMA NatOrder ==
  /\ \A x \in Nat : x <= x
  /\ \A x, y \in Nat : x < y => x <= y /\ x # y
  /\ \A x, y, z \in Nat : x <= y /\ y < z => x < z
OBVIOUS

LEMMA AgesAreNumbers ==
  \A s \in Section : Age[s] \in Nat
<1>1. \A s \in Section : Age[s] \in 1..Cardinality(Section)
  BY AgeFacts
<1> QED BY <1>1

LEMMA FrameFacts ==
  \A f \in CallFrame :
    /\ f.sec \in Section /\ f.call \in {"sec", "vec"}
    /\ f.call = "sec" => f \in SecFrame /\ f.destroy \in BOOLEAN /\ f.todo \in Seq(Kw)
                         /\ f.base.obj \in Path /\ f.base.shifted \in BOOLEAN
    /\ f.call = "vec" => f \in VecFrame /\ f.obj \in Path /\ f.kw \in Kw /\ f.next \in Nat \ {0}
BY DEF CallFrame, SecFrame, VecFrame

(* The innermost call and those below it *)
LEMMA DoingFacts ==
  ASSUME CallsOK, calls # <<>>, NEW n, n = Len(calls)
  PROVE  /\ n \in Nat \ {0} /\ n \in 1..n /\ Doing = calls[n] /\ Doing \in CallFrame
         /\ Others \in Seq(CallFrame) /\ Len(Others) = n - 1
         /\ \A i \in 1..(n - 1) : Others[i] = calls[i]
         /\ \A i \in 1..n : calls[i] \in CallFrame /\ CallOK(i) /\ calls[i].sec \in Section
         /\ n - 1 \in Nat /\ \A i \in 1..(n - 1) : i \in 1..n
         /\ \A i \in 1..n : i \in 1..(n - 1) \/ i = n
<1>1. calls \in Seq(CallFrame) /\ n \in Nat \ {0}
  BY DEF CallsOK, CallFrame
<1>2. /\ Others \in Seq(CallFrame) /\ Len(Others) = n - 1
      /\ \A i \in 1..(n - 1) : Others[i] = calls[i]
  BY <1>1, FrontAndLast DEF Others
<1>3. \A i \in 1..n : calls[i] \in CallFrame /\ CallOK(i) /\ calls[i].sec \in Section
  BY <1>1, FrameFacts DEF CallsOK
<1>4. /\ n - 1 \in Nat /\ n \in 1..n /\ \A i \in 1..(n - 1) : i \in 1..n
      /\ \A i \in 1..n : i \in 1..(n - 1) \/ i = n
  BY <1>1
<1> QED BY <1>1, <1>2, <1>3, <1>4 DEF Doing

(* f is the call g, further on. *)
SameCall(f, g) ==
  /\ f.call = g.call /\ f.sec = g.sec
  /\ f.call = "sec" =>
       /\ f.destroy = g.destroy /\ f.release = g.release /\ f.base = g.base
       /\ Distinct(f.todo) /\ ToVisit(f) \subseteq ToVisit(g)
  /\ f.call = "vec" => f.obj = g.obj /\ f.kw = g.kw /\ g.next <= f.next

(* A step at the top of the stack *)
StackStep(n, m) ==
  /\ n = Len(calls) /\ m = Len(calls') /\ calls # <<>>
  /\ calls' \in Seq(CallFrame)
  /\ m \in {n - 1, n, n + 1}
  /\ \A i \in 1..(n - 1) : calls'[i] = calls[i]
  /\ m >= n => SameCall(calls'[n], calls[n])

(* The calls after a step *)
LEMMA CallPlaces ==
  ASSUME NEW n \in Nat \ {0}, NEW m \in {n - 1, n, n + 1}, NEW i \in 1..m
  PROVE  i \in 1..(n - 1) \/ (i = n /\ m >= n) \/ (i = m /\ m = n + 1)
OBVIOUS

LEMMA CallsStep ==
  ASSUME CallsOK, NEW n, NEW m, StackStep(n, m), m = n + 1 => CallOK(m)'
  PROVE  CallsOK'
<1>1. /\ n \in Nat \ {0} /\ m \in Nat /\ n - 1 \in Nat
      /\ \A i \in 1..n : CallOK(i) /\ calls[i] \in CallFrame
      /\ \A i \in 1..n : i \in 1..(n - 1) \/ i = n
      /\ \A i \in 1..m : i \in 1..(n - 1) \/ (i = n /\ m >= n) \/ (i = m /\ m = n + 1)
  <2>1. /\ n \in Nat \ {0} /\ n - 1 \in Nat /\ \A i \in 1..n : CallOK(i) /\ calls[i] \in CallFrame
        /\ \A i \in 1..n : i \in 1..(n - 1) \/ i = n
    BY DoingFacts DEF StackStep
  <2>2. \A i \in 1..m : i \in 1..(n - 1) \/ (i = n /\ m >= n) \/ (i = m /\ m = n + 1)
    BY <2>1 DEF StackStep
  <2> QED BY <2>1, <2>2 DEF StackStep
<1>2. ASSUME NEW i \in 1..(n - 1)
      PROVE  CallOK(i)'
  <2>1. /\ i \in 1..n /\ calls'[i] = calls[i]
        /\ i > 1 => calls'[i - 1] = calls[i - 1]
        /\ \A j \in 1..(i - 1) : calls'[j] = calls[j]
    <3>1. i \in 1..n /\ (i > 1 => i - 1 \in 1..(n - 1)) /\ \A j \in 1..(i - 1) : j \in 1..(n - 1)
      BY <1>1
    <3> QED BY <3>1 DEF StackStep
  <2>2. CallOK(i)
    BY <1>1, <2>1
  <2> QED BY <2>1, <2>2 DEF CallOK
<1>3. ASSUME m >= n
      PROVE  CallOK(n)'
  <2>1. /\ SameCall(calls'[n], calls[n]) /\ CallOK(n)
        /\ n > 1 => calls'[n - 1] = calls[n - 1]
        /\ \A j \in 1..(n - 1) : calls'[j] = calls[j]
    <3>1. n \in 1..n /\ (n > 1 => n - 1 \in 1..(n - 1))
      BY <1>1
    <3> QED BY <1>1, <1>3, <3>1 DEF StackStep
  <2> DEFINE f == calls'[n]
             g == calls[n]
  <2>2. g.call \in {"sec", "vec"}
    BY <1>1, FrameFacts
  <2>3. CASE g.call = "sec"
    <3>1. /\ f.call = "sec" /\ f.sec = g.sec /\ f.destroy = g.destroy /\ f.release = g.release
          /\ f.base = g.base /\ Distinct(f.todo) /\ ToVisit(f) \subseteq ToVisit(g)
      BY <2>1, <2>3 DEF SameCall
    <3>2. ASSUME NEW p
          PROVE  /\ InSectionCall(p, g) => InSectionCall(p, f)
                 /\ ElementCall(p, g) => ElementCall(p, f)
                 /\ ~VectorCall(p, g)
      BY <2>3, <3>1 DEF InSectionCall, ElementCall, VectorCall
    <3>3. n > 1 => \/ InSectionCall(calls'[n - 1], f)
                   \/ VectorCall(calls'[n - 1], f)
                   \/ ElementCall(calls'[n - 1], f)
      BY <2>1, <3>2 DEF CallOK
    <3> QED BY <2>1, <2>3, <3>1, <3>3 DEF CallOK
  <2>4. CASE g.call = "vec"
    <3>1. f.call = "vec" /\ f.sec = g.sec /\ f.obj = g.obj /\ f.kw = g.kw
      BY <2>1, <2>4 DEF SameCall
    <3>2. ASSUME NEW p
          PROVE  /\ ~InSectionCall(p, g) /\ ~ElementCall(p, g)
                 /\ VectorCall(p, g) => VectorCall(p, f)
      BY <2>4, <3>1 DEF InSectionCall, ElementCall, VectorCall
    <3>3. n > 1 => VectorCall(calls'[n - 1], f)
      BY <2>1, <3>2 DEF CallOK
    <3> QED BY <2>1, <2>4, <3>1, <3>3 DEF CallOK
  <2> QED BY <2>2, <2>3, <2>4
<1>4. ASSUME NEW i \in 1..m
      PROVE  CallOK(i)'
  BY <1>1, <1>2, <1>3
<1> QED BY <1>4 DEF CallsOK, StackStep, CallFrame

(* Every call is for a section younger than those of its callers, but for  *)
(* an element of the section its vector has.                               *)
LEMMA YoungerCall ==
  ASSUME CallsOK, calls # <<>>, NEW n, n = Len(calls), NEW c \in Section,
         Age[Doing.sec] < Age[c] \/ (Doing.call = "vec" /\ c = Doing.sec)
  PROVE  \A j \in 1..n : \/ Age[calls[j].sec] < Age[c]
                         \/ j = n /\ calls[j].call = "vec" /\ calls[j].sec = c
<1>1. /\ n \in Nat \ {0} /\ Doing = calls[n] /\ Doing.sec \in Section /\ CallOK(n)
      /\ \A i \in 1..n : i \in 1..(n - 1) \/ i = n
      /\ \A i \in 1..n : calls[i].sec \in Section
  BY DoingFacts
<1>2. Age[c] \in Nat /\ Age[Doing.sec] \in Nat /\ \A i \in 1..n : Age[calls[i].sec] \in Nat
  BY <1>1, AgesAreNumbers
<1>3. CASE Age[Doing.sec] < Age[c]
  <2>1. \A j \in 1..(n - 1) : Age[calls[j].sec] <= Age[Doing.sec]
    <3> TAKE j \in 1..(n - 1)
    <3>1. j \in 1..n /\ (Age[calls[j].sec] < Age[Doing.sec] \/ calls[j].sec = Doing.sec)
      BY <1>1 DEF CallOK
    <3> QED BY <1>2, <3>1, NatOrder, Zenon
  <2>2. \A j \in 1..n : Age[calls[j].sec] <= Age[Doing.sec]
    BY <1>1, <1>2, <2>1, NatOrder, Zenon
  <2>3. \A j \in 1..n : Age[calls[j].sec] < Age[c]
    <3> TAKE j \in 1..n
    <3>1. Age[calls[j].sec] \in Nat /\ Age[calls[j].sec] <= Age[Doing.sec]
      BY <1>2, <2>2
    <3> QED BY <1>2, <1>3, <3>1, NatOrder, Zenon
  <2> QED BY <2>3
<1>4. CASE Doing.call = "vec" /\ c = Doing.sec
  <2>1. n > 1 => calls[n - 1].call = "sec"
    BY <1>1, <1>4 DEF CallOK, InSectionCall, VectorCall, ElementCall
  <2>2. \A j \in 1..(n - 1) : Age[calls[j].sec] < Age[c]
    <3> TAKE j \in 1..(n - 1)
    <3>1. n > 1
      BY <1>1
    <3>2. \/ Age[calls[j].sec] < Age[calls[n].sec]
          \/ j = n - 1 /\ calls[j].call = "vec"
      BY <1>1 DEF CallOK
    <3> QED BY <1>1, <1>4, <2>1, <3>1, <3>2
  <2> QED BY <1>1, <1>4, <2>2
<1> QED BY <1>3, <1>4

-----------------------------------------------------------------------------
(* The steps of a finalisation *)

(* What the innermost call may be about to visit *)
LEMMA VisitFacts ==
  ASSUME FinInv, NoVectorInElement, NEW k, Visit(k), NEW n, n = Len(calls)
  PROVE  /\ calls # <<>> /\ n \in Nat \ {0} /\ Doing = calls[n]
         /\ Doing \in SecFrame /\ Doing.call = "sec" /\ Doing.todo # <<>>
         /\ Distinct(Doing.todo) /\ k = Head(Doing.todo)
         /\ k \in ToVisit(Doing) /\ k \in DOMAIN Schema[Doing.sec] /\ k \in Kw
         /\ Doing.sec \in Section /\ ~Ended(Doing.sec)
         /\ \A i \in 1..n : Destroys(calls[i], Doing.sec) => i = n
         /\ ~Passed(Doing.sec, k)
         /\ At(k).type = "VSEC" => Doing.destroy /\ ~Doing.base.shifted
         /\ At(k).type \in {"SEC", "VSEC"} =>
              Owns(Doing.sec, k, At(k).child) /\ Descriptor(At(k).child) \notin freed
<1>1. /\ calls # <<>> /\ Doing.call = "sec" /\ Doing.todo # <<>> /\ k = Head(Doing.todo)
  BY DEF Visit, Finalizing, FinInv, PhaseOK
<1>2. /\ n \in Nat \ {0} /\ Doing = calls[n] /\ Doing \in CallFrame /\ CallOK(n)
      /\ Doing.sec \in Section
      /\ \A i \in 1..n : i \in 1..(n - 1) \/ i = n
      /\ \A i \in 1..n : calls[i].sec \in Section
      /\ n \in 1..n
  BY <1>1, DoingFacts DEF FinInv
<1>3. Doing \in SecFrame /\ Doing.destroy \in BOOLEAN
  BY <1>1, <1>2, FrameFacts
<1>4. /\ Distinct(Doing.todo) /\ ToVisit(Doing) \subseteq DOMAIN Schema[Doing.sec]
      /\ ~Doing.destroy \/ Doing.base.shifted => Doing.sec \in InElements
  BY <1>1, <1>2 DEF CallOK
<1>5. k \in ToVisit(Doing) /\ k \in DOMAIN Schema[Doing.sec] /\ k \in Kw
  <2>1. k \in ToVisit(Doing)
    BY <1>1, <1>3, <1>4, AdvanceFacts
  <2> QED BY <1>2, <1>4, <2>1, ParserAssumption
<1>6. ~Ended(Doing.sec)
  BY <1>1, <1>2 DEF FinInv, LiveOK
<1>7. \A i \in 1..n : Destroys(calls[i], Doing.sec) => i = n
  <2> SUFFICES ASSUME NEW i \in 1..(n - 1), Destroys(calls[i], Doing.sec) PROVE FALSE
    BY <1>2
  <2>1. Age[Doing.sec] < Age[Doing.sec]
    BY <1>2 DEF CallOK, Destroys
  <2> QED BY <1>2, <2>1, AgesAreNumbers, NatOrder, Zenon
<1>8. ~Passed(Doing.sec, k)
  BY <1>2, <1>5, <1>6, <1>7 DEF Passed, PassedBy, Ended
<1>9. At(k).type = "VSEC" => Doing.destroy /\ ~Doing.base.shifted
  <2>1. At(k).type = "VSEC" => Doing.sec \notin InElements
    BY <1>2, <1>5, ElementsFacts DEF At, Elements
  <2> QED BY <1>4, <2>1
<1>10. At(k).type \in {"SEC", "VSEC"} =>
         Owns(Doing.sec, k, At(k).child) /\ Descriptor(At(k).child) \notin freed
  <2> SUFFICES ASSUME At(k).type \in {"SEC", "VSEC"}
               PROVE  Owns(Doing.sec, k, At(k).child) /\ Descriptor(At(k).child) \notin freed
    OBVIOUS
  <2>1. Owns(Doing.sec, k, At(k).child) /\ At(k).child \in Section
    BY <1>2, <1>5, ParserAssumption DEF At, Owns
  <2> QED BY <1>2, <1>5, <1>8, <2>1 DEF FinInv, ChildrenOK
<1> QED BY <1>1, <1>2, <1>3, <1>4, <1>5, <1>6, <1>7, <1>8, <1>9, <1>10

GoesOn == UNCHANGED <<phase, finals, fault>>

(* What keyword k of section s holds *)
KindOf(s, k) ==
  CASE Schema[s][k].type = "SCALAR" -> "string"
    [] Schema[s][k].type \in {"VEC", "VVEC", "VTAB", "VSEC"} -> "vec"
    [] Schema[s][k].type = "TABLE" -> "table"
    [] Schema[s][k].type = "USER" -> "user"
    [] OTHER -> "nothing"
Holding(s, o, k) == <<KindOf(s, k), o, k>>

(* An item that is no section: its name and contents are freed, but not a  *)
(* string that is not marked.                                              *)
ItemStep(k) ==
  /\ Visit(k) /\ GoesOn /\ At(k).type \notin {"SEC", "VSEC"}
  /\ calls' = ItemDone
  /\ \E C : /\ C \subseteq OwnContent(Doing.base.obj, k) \cap Contents
            /\ Doing.base.shifted => C = {}
            /\ \/ Doing.base.shifted
               \/ KindOf(Doing.sec, k) = "string" /\ Unmarked(k)
               \/ {Holding(Doing.sec, Doing.base.obj, k)} \cap Contents \subseteq C
            /\ Free(NameOf(k) \cup C)

(* A section, or that of the elements of a vector that is gone *)
DownStep(k, c, b) ==
  /\ Visit(k) /\ GoesOn
  /\ Owns(Doing.sec, k, c) /\ Descriptor(c) \notin freed
  /\ \/ At(k).type = "SEC" /\ b = Below(k)
     \/ At(k).type = "VSEC" /\ Doing.destroy /\ ~Standing(k) /\ b = AtVec(Doing.base.obj)
  /\ calls' = Append(ItemDone, SecCall(c, b, Doing.destroy, Doing.destroy))
  /\ Free(NameOf(k))

VectorStep(k) ==
  /\ Visit(k) /\ GoesOn /\ At(k).type = "VSEC" /\ Standing(k)
  /\ calls' = Append(calls, VecCall(At(k).child, Doing.base.obj, k))
  /\ UNCHANGED <<freed, misfreed>>

ElementStep ==
  /\ Finalizing /\ GoesOn /\ Doing.call = "vec"
  /\ calls' = Append(Append(Others, NextElementOf(Doing)),
                     SecCall(Doing.sec, ElementBase(Doing), FALSE, FALSE))
  /\ Free({})

Stuck ==
  /\ phase' = "dead" /\ fault' # "stale"
  /\ UNCHANGED <<finals, calls, freed, misfreed>>

LEMMA FinStepShape ==
  ASSUME FinInv, NoVectorInElement, FinStep
  PROVE  \/ \E k \in Kw : ItemStep(k) \/ VectorStep(k)
         \/ \E k \in Kw, c \in Section : \E b : DownStep(k, c, b)
         \/ ElementStep \/ ElementsDestroyed \/ SectionDone \/ Stuck
<1>0. ASSUME NEW k, NEW K, K \in OwnContent(Doing.base.obj, k),
             K = Holding(Doing.sec, Doing.base.obj, k)
      PROVE  /\ Found({K}) \subseteq OwnContent(Doing.base.obj, k) \cap Contents
             /\ Doing.base.shifted => Found({K}) = {}
             /\ \/ Doing.base.shifted
                \/ {Holding(Doing.sec, Doing.base.obj, k)} \cap Contents \subseteq Found({K})
  BY <1>0 DEF Found
<1>1. ASSUME NEW k \in Kw, FreePlain(k) PROVE ItemStep(k)
  <2>1. Visit(k) /\ At(k).type = "SCALAR" /\ k \notin Str /\ calls' = ItemDone
        /\ Free(NameOf(k) \cup {}) /\ GoesOn
    BY <1>1 DEF FreePlain, Leave, Quiet, GoesOn
  <2>2. Holding(Doing.sec, Doing.base.obj, k) = Str_(Doing.base.obj, k)
    BY <2>1 DEF Holding, KindOf, At, Str_
  <2>3. Str_(Doing.base.obj, k) \notin Contents
    BY <2>1, BlocksDiffer DEF Contents
  <2>4. {Holding(Doing.sec, Doing.base.obj, k)} \cap Contents \subseteq {}
    BY <2>2, <2>3
  <2> QED BY <2>1, <2>4 DEF ItemStep
<1>2. ASSUME NEW k \in Kw, FreeString(k) PROVE ItemStep(k)
  <2>1. Visit(k) /\ At(k).type = "SCALAR" /\ calls' = ItemDone /\ GoesOn
    BY <1>2 DEF FreeString, Leave, Quiet, GoesOn
  <2>2. Holding(Doing.sec, Doing.base.obj, k) = Str_(Doing.base.obj, k)
        /\ KindOf(Doing.sec, k) = "string"
    BY <2>1 DEF Holding, KindOf, At, Str_
  <2>3. CASE Marked(k)
    <3>1. Free(NameOf(k) \cup Found({Str_(Doing.base.obj, k)}))
      BY <1>2, <2>3 DEF FreeString, Leave
    <3>2. Str_(Doing.base.obj, k) \in OwnContent(Doing.base.obj, k)
      BY DEF OwnContent
    <3> QED BY <1>0, <2>1, <2>2, <3>1, <3>2 DEF ItemStep
  <2>4. CASE ~Marked(k)
    <3>1. Free(NameOf(k) \cup {}) /\ Unmarked(k)
      BY <1>2, <2>4 DEF FreeString, Leave, Marked, Unmarked
    <3> QED BY <2>1, <2>2, <3>1 DEF ItemStep
  <2> QED BY <2>3, <2>4
<1>3. ASSUME NEW k \in Kw, FreeVector(k) PROVE ItemStep(k)
  <2>1. /\ Visit(k) /\ At(k).type \in {"VEC", "VVEC", "VTAB"} /\ calls' = ItemDone /\ GoesOn
        /\ Free(NameOf(k) \cup Found({Vec(Doing.base.obj, k)}))
    BY <1>3 DEF FreeVector, Leave, Quiet, GoesOn
  <2>2. Holding(Doing.sec, Doing.base.obj, k) = Vec(Doing.base.obj, k)
    BY <2>1 DEF Holding, KindOf, At, Vec
  <2>3. Vec(Doing.base.obj, k) \in OwnContent(Doing.base.obj, k)
    BY DEF OwnContent
  <2> QED BY <1>0, <2>1, <2>2, <2>3 DEF ItemStep
<1>4. ASSUME NEW k \in Kw, FreeTable(k) PROVE ItemStep(k)
  <2>1. /\ Visit(k) /\ At(k).type = "TABLE" /\ calls' = ItemDone /\ GoesOn
        /\ Free(NameOf(k) \cup Found({Table_(Doing.base.obj, k)}))
    BY <1>4 DEF FreeTable, Leave, Quiet, GoesOn
  <2>2. Holding(Doing.sec, Doing.base.obj, k) = Table_(Doing.base.obj, k)
    BY <2>1 DEF Holding, KindOf, At, Table_
  <2>3. Table_(Doing.base.obj, k) \in OwnContent(Doing.base.obj, k)
    BY DEF OwnContent
  <2> QED BY <1>0, <2>1, <2>2, <2>3 DEF ItemStep
<1>5. ASSUME NEW k \in Kw, FreeUser(k) PROVE ItemStep(k) \/ Stuck
  <2>1. Visit(k) /\ At(k).type = "USER"
    BY <1>5 DEF FreeUser
  <2>2. CASE Doing.sec \in Converts
    <3>1. calls' = ItemDone /\ GoesOn /\ Free(NameOf(k) \cup Found({UserData(Doing.base.obj, k)}))
      BY <1>5, <2>2 DEF FreeUser, Leave, Quiet, GoesOn
    <3>2. Holding(Doing.sec, Doing.base.obj, k) = UserData(Doing.base.obj, k)
      BY <2>1 DEF Holding, KindOf, At, UserData
    <3>3. UserData(Doing.base.obj, k) \in OwnContent(Doing.base.obj, k)
      BY DEF OwnContent
    <3> QED BY <1>0, <2>1, <3>1, <3>2, <3>3 DEF ItemStep
  <2>3. CASE Doing.sec \notin Converts
    BY <1>5, <2>3 DEF FreeUser, Die, Stuck
  <2> QED BY <2>2, <2>3
<1>6. ASSUME NEW k \in Kw, FreeWhatIsNone(k) PROVE Stuck
  BY <1>6 DEF FreeWhatIsNone, Die, Stuck
<1>7. ASSUME NEW k \in Kw, FreeSection(k)
      PROVE  \E c \in Section : \E b : DownStep(k, c, b)
  <2>1. Visit(k) /\ At(k).type = "SEC"
    BY <1>7 DEF FreeSection
  <2> DEFINE c == At(k).child
             g == SecCall(c, Below(k), Doing.destroy, Doing.destroy)
  <2>2. Owns(Doing.sec, k, c) /\ Descriptor(c) \notin freed /\ c \in Section
    <3>1. Owns(Doing.sec, k, c) /\ Descriptor(c) \notin freed
          /\ Doing.sec \in Section /\ k \in DOMAIN Schema[Doing.sec]
      BY <2>1, VisitFacts
    <3> QED BY <3>1, ParserAssumption DEF At
  <2>3. g.sec = c
    BY DEF SecCall
  <2>4. calls' = Append(ItemDone, g) /\ Free(NameOf(k)) /\ Quiet
    <3> HIDE DEF g
    <3>1. Enter(ItemDone, g, NameOf(k))
      BY <1>7 DEF FreeSection, FreesSection, g
    <3> QED BY <2>2, <2>3, <3>1 DEF Enter
  <2> QED BY <2>1, <2>2, <2>4 DEF DownStep, Quiet, GoesOn
<1>8. ASSUME NEW k \in Kw, DestroyElements(k) PROVE VectorStep(k)
  BY <1>8 DEF DestroyElements, VectorStep, Quiet, GoesOn
<1>9. ASSUME NEW k \in Kw, FreeElementSection(k)
      PROVE  \E c \in Section : \E b : DownStep(k, c, b)
  <2>1. Visit(k) /\ At(k).type = "VSEC" /\ ~Standing(k)
    BY <1>9 DEF FreeElementSection
  <2> DEFINE c == At(k).child
             b == AtVec(Doing.base.obj)
             g == SecCall(c, b, Doing.destroy, Doing.destroy)
  <2>2. Owns(Doing.sec, k, c) /\ Descriptor(c) \notin freed /\ c \in Section /\ Doing.destroy
    <3>1. /\ Owns(Doing.sec, k, c) /\ Descriptor(c) \notin freed /\ Doing.destroy
          /\ Doing.sec \in Section /\ k \in DOMAIN Schema[Doing.sec]
      BY <2>1, VisitFacts
    <3> QED BY <3>1, ParserAssumption DEF At
  <2>3. g.sec = c /\ g = Again(k)
    <3>1. Doing \in SecFrame
      BY <2>1, VisitFacts
    <3>2. Doing.destroy = TRUE
      BY <2>2, <3>1, FrameFacts DEF SecFrame
    <3> QED BY <3>2 DEF SecCall, Again
  <2>4. calls' = Append(ItemDone, g) /\ Free(NameOf(k)) /\ Quiet
    <3> HIDE DEF g
    <3>1. Enter(ItemDone, g, NameOf(k))
      BY <1>9, <2>2, <2>3 DEF FreeElementSection
    <3> QED BY <2>2, <2>3, <3>1 DEF Enter
  <2> QED BY <2>1, <2>2, <2>4 DEF DownStep, Quiet, GoesOn
<1>10. ASSUME DestroyElement PROVE ElementStep
  <2> DEFINE g == SecCall(Doing.sec, ElementBase(Doing), FALSE, FALSE)
  <2>1. g.sec = Doing.sec
    BY DEF SecCall
  <2>2. Finalizing /\ Doing.call = "vec"
        /\ Enter(Append(Others, NextElementOf(Doing)), g, {})
    BY <1>10 DEF DestroyElement
  <2>3. Descriptor(Doing.sec) \notin freed
    <3>1. calls # <<>>
      BY <2>2 DEF Finalizing, FinInv, PhaseOK
    <3>2. PICK n : n = Len(calls)
      OBVIOUS
    <3>3. n \in Nat \ {0} /\ n \in 1..n /\ Doing = calls[n] /\ CallOK(n)
      BY <3>1, <3>2, DoingFacts DEF FinInv
    <3>4. n # 1
      BY <2>2, <3>3 DEF CallOK
    <3>5. ~Ended(Doing.sec)
      BY <3>2, <3>3, <3>4 DEF FinInv, LiveOK
    <3> QED BY <3>5 DEF Ended, EndedIn
  <2> HIDE DEF g
  <2>4. calls' = Append(Append(Others, NextElementOf(Doing)), g) /\ Free({}) /\ Quiet
    BY <2>1, <2>2, <2>3 DEF Enter
  <2> QED BY <2>2, <2>4 DEF ElementStep, Quiet, GoesOn, g
<1> QED BY <1>1, <1>2, <1>3, <1>4, <1>5, <1>6, <1>7, <1>8, <1>9, <1>10 DEF FinStep

-----------------------------------------------------------------------------
(* The stack stays in order. *)

LEMMA SecCallFacts ==
  ASSUME NEW c \in Section, NEW b \in [obj : Path, shifted : BOOLEAN],
         NEW d \in BOOLEAN, NEW r \in BOOLEAN
  PROVE  /\ SecCall(c, b, d, r) \in SecFrame /\ SecCall(c, b, d, r) \in CallFrame
         /\ SecCall(c, b, d, r).call = "sec" /\ SecCall(c, b, d, r).sec = c
         /\ SecCall(c, b, d, r).base = b
         /\ SecCall(c, b, d, r).destroy = d /\ SecCall(c, b, d, r).release = r
         /\ Distinct(SecCall(c, b, d, r).todo)
         /\ ToVisit(SecCall(c, b, d, r)) \subseteq DOMAIN Schema[c]
         /\ ItemArray(c) \notin freed => ToVisit(SecCall(c, b, d, r)) = DOMAIN Schema[c]
         /\ ItemArray(c) \in freed \/ ItemOrder[c] = <<>> => SecCall(c, b, d, r).todo = <<>>
<1>1. PICK q : q = IF ItemArray(c) \in freed THEN <<>> ELSE ItemOrder[c]
  OBVIOUS
<1>2. /\ q \in Seq(Kw) /\ Distinct(q) /\ {q[i] : i \in 1..Len(q)} \subseteq DOMAIN Schema[c]
      /\ ItemArray(c) \notin freed => {q[i] : i \in 1..Len(q)} = DOMAIN Schema[c]
  <2>1. CASE ItemArray(c) \in freed
    <3>1. q = <<>> /\ Len(q) = 0
      BY <1>1, <2>1
    <3> QED BY <2>1, <3>1 DEF Distinct
  <2>2. CASE ItemArray(c) \notin freed
    <3>1. q = ItemOrder[c]
      BY <1>1, <2>2
    <3> QED BY <3>1, ItemOrderFacts
  <2> QED BY <2>1, <2>2
<1>3. SecCall(c, b, d, r) = [call |-> "sec", sec |-> c, base |-> b, destroy |-> d,
                             release |-> r, todo |-> q]
  BY <1>1 DEF SecCall
<1>4. ItemArray(c) \in freed \/ ItemOrder[c] = <<>> => q = <<>>
  BY <1>1
<1> QED BY <1>2, <1>3, <1>4 DEF SecFrame, CallFrame, ToVisit

(* A new call on top of the stack *)
LEMMA PushedCall ==
  ASSUME CallsOK, NEW n, NEW m, StackStep(n, m), m = n + 1, NEW g, calls'[m] = g,
         g.sec \in Section,
         Age[Doing.sec] < Age[g.sec] \/ (Doing.call = "vec" /\ g.sec = Doing.sec),
         \/ InSectionCall(calls'[n], g)
         \/ VectorCall(calls'[n], g)
         \/ ElementCall(calls'[n], g),
         g.call = "sec" =>
           /\ Distinct(g.todo) /\ ToVisit(g) \subseteq DOMAIN Schema[g.sec]
           /\ ~g.destroy \/ g.base.shifted => g.sec \in InElements,
         g.call = "vec" => g.sec \in InElements
  PROVE  CallsOK'
<1>1. /\ n \in Nat \ {0} /\ n = Len(calls) /\ calls # <<>> /\ m > 1 /\ m - 1 = n /\ m # 1
      /\ \A j \in 1..(m - 1) : j \in 1..n
      /\ \A j \in 1..n : j \in 1..(n - 1) \/ j = n
  BY DoingFacts DEF StackStep
<1>2. \A j \in 1..n : calls'[j].sec = calls[j].sec /\ calls'[j].call = calls[j].call
  BY <1>1 DEF StackStep, SameCall
<1>3. \A j \in 1..n : \/ Age[calls[j].sec] < Age[g.sec]
                      \/ j = n /\ calls[j].call = "vec" /\ calls[j].sec = g.sec
  BY <1>1, YoungerCall
<1>4. \A j \in 1..(m - 1) :
        \/ Age[calls'[j].sec] < Age[calls'[m].sec]
        \/ j = m - 1 /\ calls'[j].call = "vec" /\ calls'[j].sec = calls'[m].sec
  <2> TAKE j \in 1..(m - 1)
  <2>1. j \in 1..n
    BY <1>1
  <2>2. \/ Age[calls[j].sec] < Age[g.sec]
        \/ j = n /\ calls[j].call = "vec" /\ calls[j].sec = g.sec
    BY <1>3, <2>1
  <2>3. calls'[j].sec = calls[j].sec /\ calls'[j].call = calls[j].call /\ calls'[m] = g
    BY <1>2, <2>1
  <2>4. CASE Age[calls[j].sec] < Age[g.sec]
    BY <2>3, <2>4, Zenon
  <2>5. CASE j = n /\ calls[j].call = "vec" /\ calls[j].sec = g.sec
    BY <1>1, <2>3, <2>5
  <2> QED BY <2>2, <2>4, <2>5
<1>5. CallOK(m)'
  BY <1>1, <1>4 DEF CallOK
<1> QED BY <1>5, CallsStep

LEMMA ItemCalls ==
  ASSUME FinInv, NoVectorInElement, NEW k, Visit(k), calls' = ItemDone, NEW n, n = Len(calls)
  PROVE  /\ CallsOK' /\ StackStep(n, n) /\ calls'[n] = Advanced(Doing)
         /\ SameCall(Advanced(Doing), Doing) /\ Advanced(Doing) \in CallFrame
<1>1. /\ calls # <<>> /\ n \in Nat \ {0} /\ Doing = calls[n] /\ Doing \in SecFrame
      /\ Doing.call = "sec" /\ Doing.todo # <<>> /\ Distinct(Doing.todo) /\ CallsOK
  BY VisitFacts DEF FinInv
<1>2. /\ Advanced(Doing) \in SecFrame /\ Advanced(Doing) \in CallFrame
      /\ SameCall(Advanced(Doing), Doing)
  BY <1>1, AdvanceFacts DEF SameCall, CallFrame
<1>3. /\ Others \in Seq(CallFrame) /\ Len(Others) = n - 1
      /\ \A i \in 1..(n - 1) : Others[i] = calls[i]
  BY <1>1, DoingFacts
<1>4. calls' = Append(Others, Advanced(Doing))
  BY DEF ItemDone, Advanced
<1>5. /\ calls' \in Seq(CallFrame) /\ Len(calls') = n /\ calls'[n] = Advanced(Doing)
      /\ \A i \in 1..(n - 1) : calls'[i] = calls[i]
  <2>1. /\ Append(Others, Advanced(Doing)) \in Seq(CallFrame)
        /\ Len(Append(Others, Advanced(Doing))) = (n - 1) + 1
        /\ Append(Others, Advanced(Doing))[(n - 1) + 1] = Advanced(Doing)
        /\ \A i \in 1..(n - 1) : Append(Others, Advanced(Doing))[i] = Others[i]
    BY <1>2, <1>3, AppendProperties
  <2>2. (n - 1) + 1 = n
    BY <1>1
  <2> QED BY <1>3, <1>4, <2>1, <2>2
<1>6. StackStep(n, n)
  BY <1>1, <1>2, <1>5 DEF StackStep
<1>7. n # n + 1
  BY <1>1
<1> QED BY <1>1, <1>2, <1>5, <1>6, <1>7, CallsStep

(* The stack after the innermost call has gone on to f and called g *)
LEMMA TwoOnTop ==
  ASSUME CallsOK, calls # <<>>, NEW n, n = Len(calls), NEW f \in CallFrame, NEW g \in CallFrame,
         SameCall(f, Doing), calls' = Append(Append(Others, f), g)
  PROVE  /\ StackStep(n, n + 1) /\ calls'[n] = f /\ calls'[n + 1] = g
<1>1. /\ Others \in Seq(CallFrame) /\ Len(Others) = n - 1 /\ n \in Nat \ {0}
      /\ \A i \in 1..(n - 1) : Others[i] = calls[i]
      /\ Doing = calls[n]
  BY DoingFacts
<1>2. PICK p : p = Append(Others, f)
  OBVIOUS
<1>3. /\ p \in Seq(CallFrame) /\ Len(p) = n /\ p[n] = f
      /\ \A i \in 1..(n - 1) : p[i] = calls[i]
  <2>1. /\ p \in Seq(CallFrame) /\ Len(p) = (n - 1) + 1 /\ p[(n - 1) + 1] = f
        /\ \A i \in 1..(n - 1) : p[i] = Others[i]
    BY <1>1, <1>2, AppendProperties
  <2>2. (n - 1) + 1 = n
    BY <1>1
  <2> QED BY <1>1, <2>1, <2>2
<1>4. /\ calls' \in Seq(CallFrame) /\ Len(calls') = n + 1 /\ calls'[n + 1] = g
      /\ \A i \in 1..n : calls'[i] = p[i]
  BY <1>2, <1>3, AppendProperties
<1>5. n \in 1..n /\ \A i \in 1..(n - 1) : i \in 1..n
  BY <1>1
<1> QED BY <1>1, <1>3, <1>4, <1>5 DEF StackStep

LEMMA DownCalls ==
  ASSUME FinInv, NoVectorInElement, NEW k \in Kw, NEW c \in Section, NEW b, DownStep(k, c, b),
         NEW n, n = Len(calls), NEW g, g = SecCall(c, b, Doing.destroy, Doing.destroy)
  PROVE  /\ CallsOK' /\ StackStep(n, n + 1)
         /\ calls'[n] = Advanced(Doing) /\ calls'[n + 1] = g
         /\ SameCall(Advanced(Doing), Doing) /\ Advanced(Doing) \in CallFrame
         /\ g \in CallFrame /\ InSectionCall(Advanced(Doing), g)
         /\ b \in [obj : Path, shifted : BOOLEAN]
<1>1. /\ Visit(k) /\ Owns(Doing.sec, k, c) /\ calls' = Append(ItemDone, g)
      /\ \/ At(k).type = "SEC" /\ b = Below(k)
         \/ At(k).type = "VSEC" /\ Doing.destroy /\ b = AtVec(Doing.base.obj)
  BY DEF DownStep
<1>2. /\ calls # <<>> /\ n \in Nat \ {0} /\ Doing = calls[n] /\ Doing \in SecFrame /\ Doing.call = "sec"
      /\ Doing.todo # <<>> /\ Distinct(Doing.todo) /\ k = Head(Doing.todo) /\ CallsOK
      /\ Doing.sec \in Section /\ k \in DOMAIN Schema[Doing.sec] /\ CallOK(n)
      /\ At(k).child = c
  <2>1. /\ calls # <<>> /\ n \in Nat \ {0} /\ Doing = calls[n] /\ Doing \in SecFrame /\ Doing.call = "sec"
        /\ Doing.todo # <<>> /\ Distinct(Doing.todo) /\ k = Head(Doing.todo) /\ CallsOK
        /\ Doing.sec \in Section /\ k \in DOMAIN Schema[Doing.sec]
    BY <1>1, VisitFacts DEF FinInv
  <2> QED BY <1>1, <2>1, DoingFacts DEF At, Owns
<1>3. /\ Doing.base \in [obj : Path, shifted : BOOLEAN] /\ Doing.destroy \in BOOLEAN
  BY <1>2 DEF SecFrame
<1>4. /\ b \in [obj : Path, shifted : BOOLEAN]
      /\ ~b.shifted => ~Doing.base.shifted /\ b.obj = Append(Doing.base.obj, <<k, 0>>)
      /\ b.shifted => Doing.base.shifted \/ At(k).type = "VSEC"
  <2>1. Append(Doing.base.obj, <<k, 0>>) \in Path
    BY <1>3, PathAppend
  <2>2. CASE At(k).type = "SEC" /\ b = Below(k)
    <3>1. b = [Doing.base EXCEPT !.obj = Append(Doing.base.obj, <<k, 0>>)]
      BY <2>2 DEF Below
    <3>2. /\ b \in [obj : Path, shifted : BOOLEAN] /\ b.shifted = Doing.base.shifted
          /\ b.obj = Append(Doing.base.obj, <<k, 0>>)
      BY <1>3, <2>1, <3>1
    <3> QED BY <3>2
  <2>3. CASE At(k).type = "VSEC" /\ b = AtVec(Doing.base.obj)
    BY <1>3, <2>3 DEF AtVec
  <2> QED BY <1>1, <2>2, <2>3
<1>5. /\ g \in CallFrame /\ g.call = "sec" /\ g.sec = c /\ g.base = b
      /\ g.destroy = Doing.destroy /\ g.release = Doing.destroy
      /\ Distinct(g.todo) /\ ToVisit(g) \subseteq DOMAIN Schema[c]
  BY <1>3, <1>4, SecCallFacts
<1>13. PICK f : f = Advanced(Doing)
  OBVIOUS
<1>6. /\ f \in SecFrame /\ f \in CallFrame /\ SameCall(f, Doing)
      /\ ToVisit(f) = ToVisit(Doing) \ {k}
      /\ f.call = "sec" /\ f.sec = Doing.sec /\ f.base = Doing.base
      /\ f.destroy = Doing.destroy
  BY <1>2, <1>13, AdvanceFacts DEF SameCall, CallFrame
<1>7. calls' = Append(Append(Others, f), g)
  BY <1>1, <1>13 DEF ItemDone, Advanced
<1>8. StackStep(n, n + 1) /\ calls'[n] = f /\ calls'[n + 1] = g
  <2>1. CallsOK /\ calls # <<>> /\ f \in CallFrame /\ g \in CallFrame /\ SameCall(f, Doing)
    BY <1>2, <1>5, <1>6
  <2> QED BY <1>7, <2>1, TwoOnTop
<1>9. InSectionCall(f, g)
  BY <1>1, <1>4, <1>5, <1>6 DEF InSectionCall
<1>10. Age[Doing.sec] < Age[c]
  BY <1>1, <1>2, AgeFacts DEF Older
<1>11. ~g.destroy \/ g.base.shifted => g.sec \in InElements
  <2>1. ~Doing.destroy \/ Doing.base.shifted => Doing.sec \in InElements
    BY <1>2 DEF CallOK
  <2>2. /\ At(k).type = "VSEC" => c \in InElements
        /\ At(k).type = "SEC" /\ Doing.sec \in InElements => c \in InElements
    BY <1>2, ElementsFacts DEF At, Elements
  <2>3. At(k).type = "SEC" \/ At(k).type = "VSEC"
    BY <1>1
  <2> QED BY <1>4, <1>5, <2>1, <2>2, <2>3
<1>12. CallsOK'
  BY <1>2, <1>5, <1>8, <1>9, <1>10, <1>11, PushedCall
<1> QED BY <1>4, <1>5, <1>6, <1>8, <1>9, <1>12, <1>13

LEMMA VectorCalls ==
  ASSUME FinInv, NoVectorInElement, NEW k \in Kw, VectorStep(k), NEW n, n = Len(calls),
         NEW g, g = VecCall(At(k).child, Doing.base.obj, k)
  PROVE  /\ CallsOK' /\ StackStep(n, n + 1)
         /\ calls'[n] = Doing /\ calls'[n + 1] = g
         /\ g \in CallFrame /\ VectorCall(Doing, g) /\ g.next = 1
         /\ Schema[Doing.sec][k].type = "VSEC"
<1>1. Visit(k) /\ At(k).type = "VSEC" /\ calls' = Append(calls, g)
  BY DEF VectorStep
<1>2. /\ calls # <<>> /\ n \in Nat \ {0} /\ Doing = calls[n] /\ Doing \in SecFrame /\ Doing.call = "sec"
      /\ Doing.todo # <<>> /\ Distinct(Doing.todo) /\ k = Head(Doing.todo)
      /\ Doing.sec \in Section /\ k \in DOMAIN Schema[Doing.sec] /\ k \in Kw
      /\ Doing.destroy /\ ~Doing.base.shifted /\ Owns(Doing.sec, k, At(k).child)
  BY <1>1, VisitFacts
<1>3. /\ CallsOK /\ calls \in Seq(CallFrame) /\ Doing.base.obj \in Path /\ Doing \in CallFrame
      /\ At(k).child \in Section /\ At(k).child \in InElements
  <2>1. CallsOK /\ calls \in Seq(CallFrame) /\ Doing \in CallFrame
    BY <1>2 DEF FinInv, CallsOK, CallFrame
  <2>2. Doing.base.obj \in Path
    BY <1>2, <2>1, FrameFacts
  <2> QED BY <1>1, <1>2, <2>1, <2>2, ElementsFacts, ParserAssumption DEF At, Elements
<1>4. g \in CallFrame /\ g.call = "vec" /\ g.sec = At(k).child /\ g.obj = Doing.base.obj
      /\ g.kw = k /\ g.next = 1
  <2>1. 1 \in Nat \ {0}
    OBVIOUS
  <2> QED BY <1>2, <1>3, <2>1 DEF VecCall, VecFrame, CallFrame
<1>5. VectorCall(Doing, g)
  BY <1>1, <1>2, <1>4 DEF VectorCall, At
<1>6. /\ calls' \in Seq(CallFrame) /\ Len(calls') = n + 1 /\ calls'[n + 1] = g
      /\ \A i \in 1..n : calls'[i] = calls[i]
  BY <1>1, <1>3, <1>4, AppendProperties
<1>7. StackStep(n, n + 1) /\ calls'[n] = Doing
  <2>1. SameCall(Doing, Doing)
    BY <1>2 DEF SameCall
  <2>2. n \in 1..n /\ \A i \in 1..(n - 1) : i \in 1..n
    BY <1>2
  <2> QED BY <1>2, <1>6, <2>1, <2>2 DEF StackStep
<1>8. Age[Doing.sec] < Age[g.sec]
  BY <1>2, <1>3, <1>4, AgeFacts DEF Older
<1>9. CallsOK'
  BY <1>3, <1>4, <1>5, <1>6, <1>7, <1>8, PushedCall
<1> QED BY <1>1, <1>4, <1>5, <1>6, <1>7, <1>9 DEF At

LEMMA ElementCalls ==
  ASSUME FinInv, NoVectorInElement, ElementStep, NEW n, n = Len(calls),
         NEW f, f = NextElementOf(Doing),
         NEW g, g = SecCall(Doing.sec, ElementBase(Doing), FALSE, FALSE)
  PROVE  /\ CallsOK' /\ StackStep(n, n + 1) /\ calls # <<>> /\ n > 1
         /\ Doing.call = "vec" /\ Doing \in CallFrame
         /\ calls'[n] = f /\ calls'[n + 1] = g
         /\ f \in CallFrame /\ SameCall(f, Doing) /\ f.next = Doing.next + 1
         /\ g \in CallFrame /\ ElementCall(f, g) /\ g.sec = Doing.sec
         /\ g.base.obj = Append(Doing.obj, <<Doing.kw, Doing.next>>)
<1>1. /\ calls # <<>> /\ Doing.call = "vec" /\ calls' = Append(Append(Others, f), g)
  BY DEF ElementStep, Finalizing, FinInv, PhaseOK
<1>2. /\ CallsOK /\ n \in Nat \ {0} /\ Doing = calls[n] /\ Doing \in CallFrame /\ CallOK(n)
      /\ Doing.sec \in Section
  BY <1>1, DoingFacts DEF FinInv
<1>3. /\ Doing \in VecFrame /\ Doing.obj \in Path /\ Doing.kw \in Kw /\ Doing.next \in Nat \ {0}
      /\ Doing.sec \in InElements /\ n # 1
  BY <1>1, <1>2, FrameFacts DEF CallOK
<1>4. /\ f \in CallFrame /\ SameCall(f, Doing) /\ f.next = Doing.next + 1
      /\ f.call = "vec" /\ f.sec = Doing.sec /\ f.obj = Doing.obj /\ f.kw = Doing.kw
  <2>1. f = [Doing EXCEPT !.next = Doing.next + 1]
    BY DEF NextElementOf
  <2>2. Doing.next + 1 \in Nat \ {0} /\ Doing.next <= Doing.next + 1
    BY <1>3
  <2>3. /\ f \in VecFrame /\ f.call = "vec" /\ f.sec = Doing.sec /\ f.obj = Doing.obj /\ f.kw = Doing.kw
        /\ f.next = Doing.next + 1
    BY <1>1, <1>3, <2>1, <2>2 DEF VecFrame
  <2> QED BY <1>1, <2>2, <2>3 DEF CallFrame, SameCall
<1>5. PICK b : b = ElementBase(Doing)
  OBVIOUS
<1>6. /\ b \in [obj : Path, shifted : BOOLEAN] /\ ~b.shifted
      /\ b.obj = Append(Doing.obj, <<Doing.kw, Doing.next>>)
  <2>1. Append(Doing.obj, <<Doing.kw, Doing.next>>) \in Path
    BY <1>3, PathAppend
  <2> QED BY <1>5, <2>1 DEF ElementBase, Own
<1>7. /\ g \in CallFrame /\ g.call = "sec" /\ g.sec = Doing.sec /\ g.base = b
      /\ ~g.destroy /\ ~g.release
      /\ Distinct(g.todo) /\ ToVisit(g) \subseteq DOMAIN Schema[g.sec]
  <2>1. PICK d \in BOOLEAN : d = FALSE
    OBVIOUS
  <2>2. g = SecCall(Doing.sec, b, d, d)
    BY <1>5, <2>1
  <2>3. /\ g \in CallFrame /\ g.call = "sec" /\ g.sec = Doing.sec /\ g.base = b
        /\ g.destroy = d /\ g.release = d
        /\ Distinct(g.todo) /\ ToVisit(g) \subseteq DOMAIN Schema[Doing.sec]
    <3>1. Doing.sec \in Section /\ b \in [obj : Path, shifted : BOOLEAN] /\ d \in BOOLEAN
      BY <1>2, <1>6
    <3>2. PICK t \in Section : t = Doing.sec
      BY <3>1
    <3>3. /\ SecCall(t, b, d, d) \in CallFrame
          /\ SecCall(t, b, d, d).call = "sec" /\ SecCall(t, b, d, d).sec = t
          /\ SecCall(t, b, d, d).base = b
          /\ SecCall(t, b, d, d).destroy = d /\ SecCall(t, b, d, d).release = d
          /\ Distinct(SecCall(t, b, d, d).todo)
          /\ ToVisit(SecCall(t, b, d, d)) \subseteq DOMAIN Schema[t]
      BY <3>1, SecCallFacts
    <3> QED BY <2>2, <3>2, <3>3
  <2> QED BY <2>1, <2>3
<1>8. StackStep(n, n + 1) /\ calls'[n] = f /\ calls'[n + 1] = g
  <2>1. CallsOK /\ calls # <<>> /\ f \in CallFrame /\ g \in CallFrame /\ SameCall(f, Doing)
    BY <1>1, <1>2, <1>4, <1>7
  <2>2. calls' = Append(Append(Others, f), g)
    BY <1>1
  <2> QED BY <2>1, <2>2, TwoOnTop
<1>9. ElementCall(f, g)
  <2>1. f.next > 1 /\ f.next - 1 = Doing.next
    BY <1>3, <1>4
  <2> QED BY <1>4, <1>6, <1>7, <2>1 DEF ElementCall
<1>10. CallsOK'
  BY <1>1, <1>2, <1>3, <1>7, <1>8, <1>9, PushedCall
<1>11. n > 1
  BY <1>2, <1>3
<1> QED BY <1>1, <1>2, <1>4, <1>6, <1>7, <1>8, <1>9, <1>10, <1>11

LEMMA PoppedCalls ==
  ASSUME FinInv, calls # <<>>, calls' = Others, NEW n, n = Len(calls)
  PROVE  CallsOK' /\ StackStep(n, n - 1)
<1>1. /\ n \in Nat \ {0} /\ Others \in Seq(CallFrame) /\ Len(Others) = n - 1 /\ CallsOK
      /\ \A i \in 1..(n - 1) : Others[i] = calls[i]
  BY DoingFacts DEF FinInv
<1>2. StackStep(n, n - 1)
  BY <1>1 DEF StackStep
<1>3. n - 1 # n + 1
  BY <1>1
<1> QED BY <1>1, <1>2, <1>3, CallsStep

-----------------------------------------------------------------------------
(* Descriptors, item arrays and names *)

RegisteredKind == {"descriptor", "items", "name"}
TreeOK == NamesOK /\ ChildrenOK /\ ArraysOK /\ LiveOK

(* Freeing contents ends no section. *)
LEMMA KindsKept ==
  ASSUME NEW B, freed' = freed \cup B, \A b \in B : b[1] \notin RegisteredKind
  PROVE  \A s :
               /\ Descriptor(s) \in freed' <=> Descriptor(s) \in freed
               /\ ItemArray(s) \in freed' <=> ItemArray(s) \in freed
               /\ EndedIn(freed', s) <=> EndedIn(freed, s)
               /\ \A k : Name(s, k) \in freed' <=> Name(s, k) \in freed
<1>1. \A s : Descriptor(s) \notin B /\ ItemArray(s) \notin B /\ \A k : Name(s, k) \notin B
  BY BlocksDiffer DEF RegisteredKind
<1> QED BY <1>1 DEF EndedIn

LEMMA LiveStays ==
  ASSUME FinInv, NEW n, NEW m, StackStep(n, m), ~Ended(Doing.sec),
         \A s \in Section : EndedIn(freed', s) <=> EndedIn(freed, s),
         m = n + 1 => calls'[m].sec \in Section /\ ~EndedIn(freed, calls'[m].sec)
  PROVE  LiveOK'
<1>1. /\ n \in Nat \ {0} /\ n = Len(calls) /\ Doing = calls[n]
      /\ \A i \in 1..n : i \in 1..(n - 1) \/ i = n
      /\ \A i \in 1..n : calls[i].sec \in Section
      /\ \A i \in 1..(n - 1) : i \in 1..n /\ n # 1
      /\ m \in {n - 1, n, n + 1} /\ m = Len(calls')
  BY DoingFacts DEF StackStep, FinInv
<1>2. \A i \in 1..n : ~EndedIn(freed, calls[i].sec)
  <2>1. \A i \in 1..(n - 1) : ~EndedIn(freed, calls[i].sec)
    BY <1>1 DEF FinInv, LiveOK, Ended
  <2> QED BY <1>1, <2>1 DEF Ended
<1>3. ASSUME NEW i \in 1..m
      PROVE  ~EndedIn(freed', calls'[i].sec)
  <2>1. CASE i \in 1..(n - 1)
    BY <1>1, <1>2, <2>1 DEF StackStep
  <2>2. CASE i = n /\ m >= n
    <3>1. calls'[i].sec = calls[n].sec /\ n \in 1..n
      BY <1>1, <2>2 DEF StackStep, SameCall
    <3> QED BY <1>1, <1>2, <3>1
  <2>3. CASE i = m /\ m = n + 1
    BY <2>3
  <2>4. i \in 1..(n - 1) \/ (i = n /\ m >= n) \/ (i = m /\ m = n + 1)
    BY <1>1, CallPlaces, SMTT(30)
  <2> QED BY <2>1, <2>2, <2>3, <2>4
<1>4. \A i \in 1..Len(calls') : ~EndedIn(freed', calls'[i].sec)
  BY <1>1, <1>3
<1> QED BY <1>4 DEF LiveOK, Ended

(* A step in which no section is destroyed further *)
LEMMA TreeStays ==
  ASSUME FinInv, NEW n, NEW m, StackStep(n, m), ~Ended(Doing.sec),
         NEW B, freed' = freed \cup B, \A b \in B : b[1] \notin RegisteredKind,
         Doing.call = "sec" /\ Doing.destroy => m >= n /\ ToVisit(calls'[n]) = ToVisit(Doing),
         m = n + 1 => /\ ~(calls'[m].call = "sec" /\ calls'[m].destroy)
                      /\ calls'[m].sec \in Section /\ ~EndedIn(freed, calls'[m].sec)
  PROVE  TreeOK'
<1>1. /\ n \in Nat \ {0} /\ n = Len(calls) /\ Doing = calls[n]
      /\ \A i \in 1..n : i \in 1..(n - 1) \/ i = n
      /\ m \in {n - 1, n, n + 1} /\ m = Len(calls') /\ m \in Nat
  BY DoingFacts DEF StackStep, FinInv
<1>2. \A s :
            /\ Descriptor(s) \in freed' <=> Descriptor(s) \in freed
            /\ ItemArray(s) \in freed' <=> ItemArray(s) \in freed
            /\ EndedIn(freed', s) <=> EndedIn(freed, s)
            /\ \A k : Name(s, k) \in freed' <=> Name(s, k) \in freed
  BY KindsKept
<1>3. ASSUME NEW i \in 1..n, NEW s, Destroys(calls[i], s)
      PROVE  i \in 1..m /\ Destroys(calls'[i], s) /\ ToVisit(calls'[i]) = ToVisit(calls[i])
  <2>1. CASE i \in 1..(n - 1)
    BY <1>1, <1>3, <2>1 DEF StackStep
  <2>2. CASE i = n
    BY <1>1, <1>3, <2>2 DEF StackStep, SameCall, Destroys
  <2> QED BY <1>1, <2>1, <2>2
<1>4. ASSUME NEW i \in 1..m, NEW s, Destroys(calls'[i], s)
      PROVE  i \in 1..n /\ Destroys(calls[i], s) /\ ToVisit(calls'[i]) = ToVisit(calls[i])
  <2>1. CASE i \in 1..(n - 1)
    BY <1>1, <1>4, <2>1 DEF StackStep
  <2>2. CASE i = n /\ m >= n
    BY <1>1, <1>4, <2>2 DEF StackStep, SameCall, Destroys
  <2>3. CASE i = m /\ m = n + 1
    BY <1>4, <2>3 DEF Destroys
  <2>4. i \in 1..(n - 1) \/ (i = n /\ m >= n) \/ (i = m /\ m = n + 1)
    BY <1>1, CallPlaces
  <2> QED BY <2>1, <2>2, <2>3, <2>4
<1>5. ASSUME NEW s, NEW k
      PROVE  PassedBy(freed', calls', s, k) <=> PassedBy(freed, calls, s, k)
  <2>1. ASSUME PassedBy(freed, calls, s, k) PROVE PassedBy(freed', calls', s, k)
    <3>1. EndedIn(freed, s) \/ \E i \in 1..m : Destroys(calls'[i], s) /\ k \notin ToVisit(calls'[i])
      BY <1>1, <1>3, <2>1 DEF PassedBy
    <3>2. EndedIn(freed', s) \/ \E i \in 1..Len(calls') : Destroys(calls'[i], s) /\ k \notin ToVisit(calls'[i])
      BY <1>1, <1>2, <3>1
    <3> QED BY <3>2 DEF PassedBy
  <2>2. ASSUME PassedBy(freed', calls', s, k) PROVE PassedBy(freed, calls, s, k)
    <3>1. EndedIn(freed', s) \/ \E i \in 1..m : Destroys(calls'[i], s) /\ k \notin ToVisit(calls'[i])
      BY <1>1, <2>2 DEF PassedBy
    <3> QED BY <1>1, <1>2, <1>4, <3>1 DEF PassedBy
  <2> QED BY <2>1, <2>2
<1>6. NamesOK' /\ ArraysOK'
  BY <1>2, <1>5 DEF FinInv, NamesOK, ArraysOK, Passed
<1>7. ChildrenOK'
  <2>1. ASSUME NEW c, \E i \in 1..Len(calls) : Destroys(calls[i], c)
        PROVE  \E i \in 1..Len(calls') : Destroys(calls'[i], c)
    BY <1>1, <1>3, <2>1
  <2>2. ASSUME NEW s \in Section, NEW c \in Section, NEW k \in Kw, Owns(s, k, c)
        PROVE  /\ Descriptor(c) \in freed' => PassedBy(freed', calls', s, k)
               /\ PassedBy(freed', calls', s, k) => \/ Descriptor(c) \in freed'
                                   \/ \E i \in 1..Len(calls') : Destroys(calls'[i], c)
    BY <1>2, <1>5, <2>1, <2>2 DEF FinInv, ChildrenOK, Passed
  <2> QED BY <2>2 DEF ChildrenOK, Passed
<1>8. LiveOK'
  BY <1>2, LiveStays
<1> QED BY <1>6, <1>7, <1>8 DEF TreeOK

(* The innermost call, which destroys its section, has passed keyword k:   *)
(* its name is freed, and a section that it owns is being destroyed.       *)
LEMMA TreeAdvances ==
  ASSUME FinInv, NoVectorInElement, NEW k, Visit(k), Doing.destroy,
         NEW n, NEW m, StackStep(n, m), m >= n, calls'[n] = Advanced(Doing),
         NEW C, freed' = freed \cup {Name(Doing.sec, k)} \cup C,
         \A b \in C : b[1] \notin RegisteredKind,
         m = n => At(k).type \notin {"SEC", "VSEC"},
         NEW c \in Section,
         m = n + 1 => /\ Owns(Doing.sec, k, c) /\ Descriptor(c) \notin freed
                      /\ Destroys(calls'[m], c) /\ ToVisit(calls'[m]) = DOMAIN Schema[c]
  PROVE  TreeOK'
<1> DEFINE s0 == Doing.sec
<1>1. /\ n \in Nat \ {0} /\ n = Len(calls) /\ Doing = calls[n]
      /\ \A i \in 1..n : i \in 1..(n - 1) \/ i = n
      /\ m \in {n, n + 1} /\ m = Len(calls') /\ m \in Nat /\ n \in 1..n /\ n \in 1..m
  BY DoingFacts DEF StackStep, FinInv
<1>2. /\ s0 \in Section /\ k \in DOMAIN Schema[s0] /\ k \in Kw /\ ~EndedIn(freed, s0)
      /\ \A i \in 1..n : Destroys(calls[i], s0) => i = n
      /\ Doing \in SecFrame /\ Doing.todo # <<>> /\ Distinct(Doing.todo) /\ k = Head(Doing.todo)
      /\ Doing.call = "sec"
  BY <1>1, VisitFacts DEF Ended
<1>3. /\ ToVisit(calls'[n]) = ToVisit(Doing) \ {k} /\ k \in ToVisit(Doing)
      /\ calls'[n].call = "sec" /\ calls'[n].sec = s0 /\ calls'[n].destroy
  BY <1>2, AdvanceFacts
<1>4. /\ \A s : Descriptor(s) \in freed' <=> Descriptor(s) \in freed
      /\ \A s : ItemArray(s) \in freed' <=> ItemArray(s) \in freed
      /\ \A s : EndedIn(freed', s) <=> EndedIn(freed, s)
      /\ \A s, l : Name(s, l) \in freed' <=> Name(s, l) \in freed \/ (s = s0 /\ l = k)
  <2>1. \A s : Descriptor(s) \notin C /\ ItemArray(s) \notin C /\ \A l : Name(s, l) \notin C
    BY BlocksDiffer DEF RegisteredKind
  <2>2. \A s : Descriptor(s) # Name(s0, k) /\ ItemArray(s) # Name(s0, k)
    BY BlocksDiffer
  <2>3. \A s, l : Name(s, l) = Name(s0, k) <=> s = s0 /\ l = k
    BY BlocksDiffer
  <2> QED BY <2>1, <2>2, <2>3 DEF EndedIn
<1> HIDE DEF s0
<1>5. ASSUME NEW i \in 1..n, NEW s, Destroys(calls[i], s)
      PROVE  /\ i \in 1..m /\ Destroys(calls'[i], s)
             /\ ToVisit(calls'[i]) \subseteq ToVisit(calls[i])
  <2>1. CASE i \in 1..(n - 1)
    BY <1>1, <1>5, <2>1 DEF StackStep
  <2>2. CASE i = n
    BY <1>1, <1>3, <1>5, <2>2 DEF Destroys, s0
  <2> QED BY <1>1, <2>1, <2>2
<1>6. ASSUME NEW i \in 1..m, NEW s, Destroys(calls'[i], s)
      PROVE  \/ /\ i \in 1..n /\ Destroys(calls[i], s)
                /\ ToVisit(calls[i]) \ (IF s = s0 THEN {k} ELSE {}) \subseteq ToVisit(calls'[i])
             \/ i = m /\ m = n + 1 /\ s = c
  <2>1. CASE i \in 1..(n - 1)
    BY <1>1, <1>6, <2>1 DEF StackStep
  <2>2. CASE i = n
    BY <1>1, <1>2, <1>3, <1>6, <2>2 DEF Destroys, s0
  <2>3. CASE i = m /\ m = n + 1
    BY <1>6, <2>3 DEF Destroys
  <2>4. i \in 1..(n - 1) \/ i = n \/ (i = m /\ m = n + 1)
    BY <1>1
  <2> QED BY <2>1, <2>2, <2>3, <2>4
<1>7. ASSUME NEW s, NEW l \in DOMAIN Schema[s]
      PROVE  PassedBy(freed', calls', s, l) <=> PassedBy(freed, calls, s, l) \/ (s = s0 /\ l = k)
  <2>1. ASSUME PassedBy(freed, calls, s, l) PROVE PassedBy(freed', calls', s, l)
    <3>1. EndedIn(freed, s) \/ \E i \in 1..m : Destroys(calls'[i], s) /\ l \notin ToVisit(calls'[i])
      BY <1>1, <1>5, <2>1 DEF PassedBy
    <3>2. EndedIn(freed', s) \/ \E i \in 1..Len(calls') : Destroys(calls'[i], s) /\ l \notin ToVisit(calls'[i])
      BY <1>1, <1>4, <3>1
    <3> QED BY <3>2 DEF PassedBy
  <2>2. ASSUME s = s0, l = k PROVE PassedBy(freed', calls', s, l)
    <3>1. Destroys(calls'[n], s) /\ l \notin ToVisit(calls'[n])
      BY <1>3, <2>2 DEF Destroys
    <3>2. n \in 1..Len(calls')
      BY <1>1
    <3>3. \E i \in 1..Len(calls') : Destroys(calls'[i], s) /\ l \notin ToVisit(calls'[i])
      BY <3>1, <3>2
    <3> QED BY <3>3 DEF PassedBy
  <2>3. ASSUME PassedBy(freed', calls', s, l), ~(s = s0 /\ l = k)
        PROVE  PassedBy(freed, calls, s, l)
    <3>1. EndedIn(freed', s) \/ \E i \in 1..m : Destroys(calls'[i], s) /\ l \notin ToVisit(calls'[i])
      BY <1>1, <2>3 DEF PassedBy
    <3>2. CASE EndedIn(freed', s)
      BY <1>4, <3>2 DEF PassedBy
    <3>3. CASE \E i \in 1..m : Destroys(calls'[i], s) /\ l \notin ToVisit(calls'[i])
      <4>1. PICK i \in 1..m : Destroys(calls'[i], s) /\ l \notin ToVisit(calls'[i])
        BY <3>3
      <4>2. ~(i = m /\ m = n + 1 /\ s = c)
        BY <4>1
      <4>3. i \in 1..n /\ Destroys(calls[i], s) /\ l \notin ToVisit(calls[i])
        BY <1>6, <2>3, <4>1, <4>2
      <4> QED BY <1>1, <4>3 DEF PassedBy
    <3> QED BY <3>1, <3>2, <3>3
  <2> QED BY <2>1, <2>2, <2>3
<1>8. NamesOK' /\ ArraysOK'
  <2>1. ASSUME NEW s \in Section, NEW l \in DOMAIN Schema[s]
        PROVE  Name(s, l) \in freed' <=> PassedBy(freed', calls', s, l)
    BY <1>4, <1>7 DEF FinInv, NamesOK, Passed
  <2>2. NamesOK'
    BY <2>1 DEF NamesOK, Passed
  <2> QED BY <1>4, <2>2 DEF FinInv, ArraysOK
<1>9. ChildrenOK'
  <2>1. ASSUME NEW d, \E i \in 1..Len(calls) : Destroys(calls[i], d)
        PROVE  \E i \in 1..Len(calls') : Destroys(calls'[i], d)
    BY <1>1, <1>5, <2>1
  <2>2. ASSUME NEW s \in Section, NEW d \in Section, NEW l \in Kw, Owns(s, l, d)
        PROVE  /\ Descriptor(d) \in freed' => PassedBy(freed', calls', s, l)
               /\ PassedBy(freed', calls', s, l) =>
                    \/ Descriptor(d) \in freed'
                    \/ \E i \in 1..Len(calls') : Destroys(calls'[i], d)
    <3>1. /\ Descriptor(d) \in freed => PassedBy(freed, calls, s, l)
          /\ PassedBy(freed, calls, s, l) =>
               \/ Descriptor(d) \in freed
               \/ \E i \in 1..Len(calls) : Destroys(calls[i], d)
      BY <2>2 DEF FinInv, ChildrenOK, Passed
    <3>2. l \in DOMAIN Schema[s]
      BY <2>2 DEF Owns
    <3>3. CASE s = s0 /\ l = k
      <4>1. m # n
        BY <2>2, <3>3 DEF Owns, At, s0
      <4>2. m = n + 1 /\ d = c
        BY <1>1, <2>2, <3>3, <4>1 DEF Owns, s0
      <4>3. \E i \in 1..Len(calls') : Destroys(calls'[i], d)
        BY <1>1, <4>2
      <4> QED BY <1>7, <3>2, <3>3, <4>3
    <3>4. CASE ~(s = s0 /\ l = k)
      BY <1>4, <1>7, <2>1, <3>1, <3>2, <3>4
    <3> QED BY <3>3, <3>4
  <2> QED BY <2>2 DEF ChildrenOK, Passed
<1>10. LiveOK'
  <2>1. m = n + 1 => calls'[m].sec \in Section /\ ~EndedIn(freed, calls'[m].sec)
    <3>1. m = n + 1 => c # Top
      BY <1>2, TreeAssumption DEF s0
    <3> QED BY <3>1 DEF EndedIn, Destroys
  <2> QED BY <1>2, <1>4, <2>1, LiveStays DEF Ended, s0
<1> QED BY <1>8, <1>9, <1>10 DEF TreeOK

(* What a call that ends frees: nothing in an element; else it is the      *)
(* parser's own section, or one whose owner has passed the keyword.        *)
LEMMA SectionDoneFacts ==
  ASSUME FinInv, calls # <<>>, Doing.call = "sec", Doing.todo = <<>>, NEW n, n = Len(calls)
  PROVE  \/ ~Doing.destroy /\ OwnMemory(Doing) = {} /\ ~Ended(Doing.sec)
         \/ /\ Doing.destroy /\ n = 1 /\ Doing.sec = Top
            /\ OwnMemory(Doing) =
                 IF ItemOrder[Top] # <<>> /\ ItemArray(Top) \notin freed THEN {ItemArray(Top)} ELSE {}
         \/ /\ Doing.destroy /\ n > 1 /\ Doing.sec # Top /\ ~Ended(Doing.sec)
            /\ OwnMemory(Doing) =
                 {Descriptor(Doing.sec)}
                   \cup IF ItemOrder[Doing.sec] # <<>> THEN {ItemArray(Doing.sec)} ELSE {}
            /\ ItemArray(Doing.sec) \notin freed
            /\ \E k \in Kw : Owns(calls[n - 1].sec, k, Doing.sec) /\ Passed(calls[n - 1].sec, k)
            /\ \A i \in 1..(n - 1) : calls[i].sec # Doing.sec
<1>1. /\ n \in Nat \ {0} /\ n \in 1..n /\ Doing = calls[n] /\ Doing \in SecFrame /\ CallOK(n)
      /\ Doing.sec \in Section /\ Doing.destroy \in BOOLEAN /\ Doing.release \in BOOLEAN
      /\ \A i \in 1..(n - 1) : calls[i].sec \in Section /\ calls[i] \in CallFrame
      /\ n > 1 => n - 1 \in 1..(n - 1) /\ n - 1 \in 1..n
  <2>1. /\ n \in Nat \ {0} /\ n \in 1..n /\ Doing = calls[n] /\ Doing \in CallFrame /\ CallOK(n)
        /\ \A i \in 1..(n - 1) : calls[i].sec \in Section /\ calls[i] \in CallFrame
    BY DoingFacts DEF FinInv
  <2>2. Doing \in SecFrame
    BY <2>1, FrameFacts
  <2> QED BY <2>1, <2>2 DEF SecFrame
<1>2. CASE n = 1
  <2>1. Doing.sec = Top /\ Doing.destroy /\ ~Doing.release
    BY <1>1, <1>2 DEF CallOK
  <2> QED BY <1>1, <1>2, <2>1 DEF OwnMemory
<1>3. CASE n > 1
  <2>1. ~Ended(Doing.sec)
    BY <1>1, <1>3 DEF FinInv, LiveOK
  <2>2. InSectionCall(calls[n - 1], Doing) \/ ElementCall(calls[n - 1], Doing)
    BY <1>1, <1>3 DEF CallOK, VectorCall
  <2>3. CASE ElementCall(calls[n - 1], Doing)
    BY <2>1, <2>3 DEF ElementCall, OwnMemory
  <2>4. CASE InSectionCall(calls[n - 1], Doing)
    <3>1. Doing.release = Doing.destroy /\ calls[n - 1].destroy = Doing.destroy
          /\ calls[n - 1].call = "sec"
      BY <2>4 DEF InSectionCall
    <3>2. CASE ~Doing.destroy
      BY <2>1, <3>1, <3>2 DEF OwnMemory
    <3>3. CASE Doing.destroy
      <4>1. PICK k \in Kw : Owns(calls[n - 1].sec, k, Doing.sec) /\ k \notin ToVisit(calls[n - 1])
        BY <2>4 DEF InSectionCall
      <4>2. Doing.sec # Top
        BY <1>1, <1>3, <4>1, TreeAssumption
      <4>3. Passed(calls[n - 1].sec, k)
        BY <1>1, <1>3, <3>1, <3>3, <4>1 DEF Passed, PassedBy, Destroys
      <4>4. ASSUME NEW i \in 1..(n - 1) PROVE calls[i].sec # Doing.sec
        <5>1. Age[calls[i].sec] < Age[Doing.sec] \/ (i = n - 1 /\ calls[i].call = "vec")
          BY <1>1 DEF CallOK
        <5>2. Age[calls[i].sec] < Age[Doing.sec]
          BY <3>1, <5>1
        <5> QED BY <1>1, <5>2, AgesAreNumbers, NatOrder, Zenon
      <4>5. ItemArray(Doing.sec) \notin freed
        BY <1>1, <2>1, <4>2 DEF FinInv, ArraysOK, Ended, EndedIn
      <4>6. OwnMemory(Doing) = {Descriptor(Doing.sec)}
              \cup IF ItemOrder[Doing.sec] # <<>> THEN {ItemArray(Doing.sec)} ELSE {}
        BY <3>1, <3>3, <4>5 DEF OwnMemory
      <4> QED BY <1>3, <2>1, <3>3, <4>1, <4>2, <4>3, <4>4, <4>5, <4>6
    <3> QED BY <1>1, <3>2, <3>3
  <2> QED BY <2>2, <2>3, <2>4
<1> QED BY <1>1, <1>2, <1>3

(* The innermost call has ended. *)
LEMMA TreeEnds ==
  ASSUME FinInv, calls # <<>>, Doing.call = "sec", Doing.todo = <<>>, calls' = Others,
         freed' = freed \cup OwnMemory(Doing), NEW n, n = Len(calls)
  PROVE  TreeOK'
<1> DEFINE s0 == Doing.sec
           gone == EndedIn(freed', s0)
<1>1. /\ n \in Nat \ {0} /\ n \in 1..n /\ Doing = calls[n] /\ s0 \in Section
      /\ \A i \in 1..n : i \in 1..(n - 1) \/ i = n
      /\ Len(calls') = n - 1 /\ StackStep(n, n - 1) /\ n - 1 \in Nat
      /\ \A i \in 1..(n - 1) : i \in 1..n /\ calls'[i] = calls[i] /\ calls[i].sec \in Section
      /\ ToVisit(Doing) = {}
  <2>1. ToVisit(Doing) = {}
    BY DEF ToVisit
  <2>2. StackStep(n, n - 1)
    BY PoppedCalls
  <2> QED BY <2>1, <2>2, DoingFacts DEF FinInv
<1>2. CASE ~Doing.destroy
  <2>1. OwnMemory(Doing) = {} /\ ~Ended(s0)
    BY SectionDoneFacts, <1>2
  <2>2. PICK B : B = OwnMemory(Doing)
    OBVIOUS
  <2>3. /\ freed' = freed \cup B /\ \A b \in B : b[1] \notin RegisteredKind
        /\ n - 1 # n + 1
    BY <1>1, <2>1, <2>2
  <2> QED BY <1>1, <1>2, <2>1, <2>3, TreeStays
<1>3. CASE Doing.destroy
  <2>1. /\ n = 1 => s0 = Top
        /\ n > 1 => /\ s0 # Top /\ ~Ended(s0) /\ ItemArray(s0) \notin freed
                    /\ \E k \in Kw : Owns(calls[n - 1].sec, k, s0) /\ Passed(calls[n - 1].sec, k)
                    /\ \A i \in 1..(n - 1) : calls[i].sec # s0
    <3>1. \/ n = 1 /\ s0 = Top
          \/ /\ n > 1 /\ s0 # Top /\ ~Ended(s0) /\ ItemArray(s0) \notin freed
             /\ \E k \in Kw : Owns(calls[n - 1].sec, k, s0) /\ Passed(calls[n - 1].sec, k)
             /\ \A i \in 1..(n - 1) : calls[i].sec # s0
      BY <1>3, SectionDoneFacts
    <3> QED BY <1>1, <3>1
  <2>2. /\ \A s : Descriptor(s) \in freed' <=> Descriptor(s) \in freed \/ (n > 1 /\ s = s0)
        /\ \A s : ItemArray(s) \in freed' <=>
                    ItemArray(s) \in freed \/ (s = s0 /\ ItemOrder[s0] # <<>>)
        /\ \A s, l : Name(s, l) \in freed' <=> Name(s, l) \in freed
    <3>1. CASE n = 1
      <4>1. OwnMemory(Doing) = IF ItemOrder[Top] # <<>> /\ ItemArray(Top) \notin freed
                               THEN {ItemArray(Top)} ELSE {}
        BY <1>3, <3>1, SectionDoneFacts
      <4> QED BY <2>1, <3>1, <4>1, BlocksDiffer
    <3>2. CASE n > 1
      <4>1. OwnMemory(Doing) = {Descriptor(s0)}
              \cup IF ItemOrder[s0] # <<>> THEN {ItemArray(s0)} ELSE {}
        BY <1>3, <3>2, SectionDoneFacts
      <4> HIDE DEF s0
      <4> QED BY <3>2, <4>1, BlocksDiffer
    <3> QED BY <1>1, <3>1, <3>2
  <2> HIDE DEF s0, gone
  <2>3. /\ \A s : EndedIn(freed', s) <=> EndedIn(freed, s) \/ (s = s0 /\ gone)
        /\ gone \/ DOMAIN Schema[s0] = {}
    <3>1. \A s : EndedIn(freed', s) <=> EndedIn(freed, s) \/ (s = s0 /\ gone)
      BY <1>1, <2>1, <2>2 DEF EndedIn, gone
    <3>2. ASSUME DOMAIN Schema[s0] # {} PROVE gone
      <4>1. ItemOrder[s0] # <<>>
        <5>1. {ItemOrder[s0][i] : i \in 1..Len(ItemOrder[s0])} # {}
          BY <1>1, <3>2, ItemOrderFacts
        <5> QED BY <5>1
      <4>2. CASE n = 1
        BY <2>1, <2>2, <4>1, <4>2 DEF gone, EndedIn
      <4>3. CASE n > 1
        BY <2>2, <4>3 DEF gone, EndedIn
      <4> QED BY <1>1, <4>2, <4>3
    <3> QED BY <3>1, <3>2
  <2>4. ASSUME NEW s, NEW k \in DOMAIN Schema[s]
        PROVE  PassedBy(freed', calls', s, k) <=> PassedBy(freed, calls, s, k)
    <3>1. ASSUME PassedBy(freed, calls, s, k) PROVE PassedBy(freed', calls', s, k)
      <4>1. CASE EndedIn(freed, s)
        BY <2>3, <4>1 DEF PassedBy
      <4>2. CASE \E i \in 1..n : Destroys(calls[i], s) /\ k \notin ToVisit(calls[i])
        <5>1. PICK i \in 1..n : Destroys(calls[i], s) /\ k \notin ToVisit(calls[i])
          BY <4>2
        <5>2. CASE i = n
          <6>1. s = s0
            BY <1>1, <5>1, <5>2 DEF Destroys, s0
          <6>2. EndedIn(freed', s)
            BY <2>3, <6>1
          <6> QED BY <6>2 DEF PassedBy
        <5>3. CASE i \in 1..(n - 1)
          BY <1>1, <5>1, <5>3 DEF PassedBy
        <5> QED BY <1>1, <5>2, <5>3
      <4> QED BY <3>1, <4>1, <4>2 DEF PassedBy
    <3>2. ASSUME PassedBy(freed', calls', s, k) PROVE PassedBy(freed, calls, s, k)
      <4>1. CASE EndedIn(freed, s)
        BY <4>1 DEF PassedBy
      <4>2. CASE s = s0
        <5>1. Destroys(calls[n], s) /\ k \notin ToVisit(calls[n])
          BY <1>1, <1>3, <4>2 DEF Destroys, s0
        <5>2. \E i \in 1..n : Destroys(calls[i], s) /\ k \notin ToVisit(calls[i])
          BY <1>1, <5>1
        <5> QED BY <5>2 DEF PassedBy
      <4>3. CASE \E i \in 1..(n - 1) : Destroys(calls'[i], s) /\ k \notin ToVisit(calls'[i])
        BY <1>1, <4>3 DEF PassedBy
      <4> QED BY <1>1, <2>3, <3>2, <4>1, <4>2, <4>3 DEF PassedBy
    <3> QED BY <3>1, <3>2
  <2>5. NamesOK'
    <3>1. ASSUME NEW s \in Section, NEW l \in DOMAIN Schema[s]
          PROVE  Name(s, l) \in freed' <=> PassedBy(freed', calls', s, l)
      BY <2>2, <2>4 DEF FinInv, NamesOK, Passed
    <3> QED BY <3>1 DEF NamesOK, Passed
  <2>6. ArraysOK'
    <3>1. Descriptor(Top) \notin freed'
      BY <1>1, <2>1, <2>2 DEF FinInv, ArraysOK
    <3>2. ASSUME NEW s \in Section \ {Top}
          PROVE  ItemArray(s) \in freed' <=> Descriptor(s) \in freed' /\ ItemOrder[s] # <<>>
      <4>1. ItemArray(s) \in freed <=> Descriptor(s) \in freed /\ ItemOrder[s] # <<>>
        BY DEF FinInv, ArraysOK
      <4>2. CASE s = s0
        <5>1. n > 1
          BY <1>1, <2>1, <4>2
        <5> QED BY <2>1, <2>2, <4>1, <4>2, <5>1
      <4> QED BY <2>2, <4>1, <4>2
    <3> QED BY <3>1, <3>2 DEF ArraysOK
  <2>7. ChildrenOK'
    <3>1. ASSUME NEW s \in Section, NEW d \in Section, NEW l \in Kw, Owns(s, l, d)
          PROVE  /\ Descriptor(d) \in freed' => PassedBy(freed', calls', s, l)
                 /\ PassedBy(freed', calls', s, l) =>
                      \/ Descriptor(d) \in freed'
                      \/ \E i \in 1..Len(calls') : Destroys(calls'[i], d)
      <4>1. /\ Descriptor(d) \in freed => PassedBy(freed, calls, s, l)
            /\ PassedBy(freed, calls, s, l) =>
                 \/ Descriptor(d) \in freed
                 \/ \E i \in 1..Len(calls) : Destroys(calls[i], d)
        BY <3>1 DEF FinInv, ChildrenOK, Passed
      <4>2. PassedBy(freed', calls', s, l) <=> PassedBy(freed, calls, s, l)
        BY <2>4, <3>1 DEF Owns
      <4>3. CASE d = s0
        <5>1. n > 1
          BY <1>1, <2>1, <3>1, <4>3, TreeAssumption
        <5>2. PICK k \in Kw : Owns(calls[n - 1].sec, k, s0) /\ Passed(calls[n - 1].sec, k)
          BY <2>1, <5>1
        <5>3. calls[n - 1].sec \in Section
          BY <1>1, <5>1
        <5>4. s = calls[n - 1].sec /\ l = k
          BY <1>1, <3>1, <4>3, <5>2, <5>3, TreeAssumption
        <5> QED BY <2>2, <4>2, <4>3, <5>1, <5>2, <5>4 DEF Passed
      <4>4. CASE d # s0
        <5>1. ASSUME NEW i \in 1..n, Destroys(calls[i], d)
              PROVE  i \in 1..Len(calls') /\ Destroys(calls'[i], d)
          BY <1>1, <4>4, <5>1 DEF Destroys, s0
        <5> QED BY <1>1, <2>2, <4>1, <4>2, <4>4, <5>1
      <4> QED BY <4>3, <4>4
    <3> QED BY <3>1 DEF ChildrenOK, Passed
  <2>8. LiveOK'
    <3>1. ASSUME NEW i \in 1..(n - 1)
          PROVE  ~EndedIn(freed', calls'[i].sec)
      <4>1. n > 1 /\ n # 1 /\ i \in 1..n /\ calls'[i] = calls[i]
        BY <1>1
      <4>2. ~EndedIn(freed, calls[i].sec) /\ calls[i].sec # s0
        BY <1>1, <2>1, <4>1 DEF FinInv, LiveOK, Ended
      <4> QED BY <2>3, <4>1, <4>2
    <3>2. \A i \in 1..Len(calls') : ~EndedIn(freed', calls'[i].sec)
      BY <1>1, <3>1
    <3> QED BY <3>2 DEF LiveOK, Ended
  <2> QED BY <2>5, <2>6, <2>7, <2>8 DEF TreeOK
<1> QED BY <1>2, <1>3

-----------------------------------------------------------------------------
(* Contents *)

LEMMA SpentFacts ==
  /\ \A S, B, o, k : SpentIn(S \cup B, o, k) <=> SpentIn(S, o, k) \/ SpentIn(B, o, k)
  /\ \A S, o, k : (\A b \in S : b[1] \notin ContentKind) => ~SpentIn(S, o, k)
  /\ \A o, k, p, l, B : B \subseteq OwnContent(p, l) /\ SpentIn(B, o, k) => o = p /\ k = l
<1>1. \A S, o, k : (\A b \in S : b[1] \notin ContentKind) => ~SpentIn(S, o, k)
  BY ContentKinds DEF SpentIn
<1>2. ASSUME NEW o, NEW k, NEW p, NEW l, NEW B, B \subseteq OwnContent(p, l), SpentIn(B, o, k)
      PROVE  o = p /\ k = l
  BY <1>2, BlocksDiffer DEF SpentIn, OwnContent
<1>3. \A S, B, o, k : SpentIn(S \cup B, o, k) <=> SpentIn(S, o, k) \/ SpentIn(B, o, k)
  BY DEF SpentIn
<1> QED BY <1>1, <1>2, <1>3

(* What is below an object *)
LEMMA BelowAppend ==
  ASSUME NEW p \in Path, NEW k \in Kw, NEW n \in Nat, NEW o \in Path, NEW l, NEW r
  PROVE  /\ Below_(Append(p, <<k, n>>), p, k, n)
         /\ Below_(Append(p, <<k, n>>), p, l, r) => l = k /\ r = n
         /\ Below_(o, Append(p, <<k, n>>), l, r) => Below_(o, p, k, n)
         /\ Len(o) < Len(p) /\ Below_(Append(p, <<k, n>>), o, l, r) => Below_(p, o, l, r)
<1> DEFINE q == Append(p, <<k, n>>)
<1>1. /\ Len(p) \in Nat /\ Len(o) \in Nat /\ Len(q) = Len(p) + 1
      /\ q[Len(p) + 1] = <<k, n>> /\ \A j \in 1..Len(p) : q[j] = p[j]
  BY PathAppend DEF Path
<1> HIDE DEF q
<1>2. Below_(q, p, k, n) /\ (Below_(q, p, l, r) => l = k /\ r = n)
  BY <1>1 DEF Below_
<1>3. ASSUME Below_(o, q, l, r) PROVE Below_(o, p, k, n)
  <2>1. /\ Len(q) < Len(o) /\ \A j \in 1..Len(q) : o[j] = q[j]
        /\ Len(p) + 1 \in 1..Len(q) /\ \A j \in 1..Len(p) : j \in 1..Len(q)
        /\ Len(p) < Len(o)
    BY <1>1, <1>3 DEF Below_
  <2> QED BY <1>1, <2>1 DEF Below_
<1>4. ASSUME Len(o) < Len(p), Below_(q, o, l, r) PROVE Below_(p, o, l, r)
  <2>1. /\ Len(o) + 1 \in 1..Len(p) /\ \A j \in 1..Len(o) : j \in 1..Len(p)
        /\ q[Len(o) + 1] = <<l, r>> /\ \A j \in 1..Len(o) : q[j] = o[j]
    BY <1>1, <1>4 DEF Below_
  <2> QED BY <1>1, <1>4, <2>1 DEF Below_
<1> QED BY <1>2, <1>3, <1>4 DEF q

(* A vector that is being destroyed, unless it is the innermost call that  *)
(* has done so, is still being destroyed after a step.                     *)
LEMMA VisitedStays ==
  ASSUME FinInv, NEW n, NEW m, StackStep(n, m), NEW i \in 1..(n - 1),
         i < m \/ calls[n].call = "sec",
         NEW k, NEW r \in Nat, VisitedElement(i, k, r)
  PROVE  VisitedElement(i, k, r)' /\ i < m
<1>1. /\ n \in Nat \ {0} /\ n = Len(calls) /\ m \in {n - 1, n, n + 1} /\ m = Len(calls')
      /\ calls'[i] = calls[i] /\ i \in 1..n /\ i + 1 \in 1..n
      /\ \A j \in 1..n : calls[j] \in CallFrame
  BY DoingFacts DEF StackStep, FinInv
<1>2. /\ k = Head(calls[i].todo) /\ Schema[calls[i].sec][k].type = "VSEC"
      /\ calls[i + 1].call = "vec" /\ r < calls[i + 1].next
  BY DEF VisitedElement
<1>3. i < m /\ calls'[i + 1].call = "vec" /\ r < calls'[i + 1].next
  <2>1. CASE i + 1 \in 1..(n - 1)
    <3>1. calls'[i + 1] = calls[i + 1]
      BY <2>1 DEF StackStep
    <3> QED BY <1>1, <1>2, <2>1, <3>1
  <2>2. CASE i + 1 = n
    <3>1. i < m /\ m >= n
      BY <1>1, <1>2, <2>2
    <3>2. calls'[n].call = "vec" /\ calls[n].next <= calls'[n].next
      BY <1>2, <2>2, <3>1 DEF StackStep, SameCall
    <3>3. calls'[n] \in CallFrame
      BY <1>1, <3>1, ElementOfSeq DEF StackStep
    <3>4. calls'[n].next \in Nat /\ calls[n].next \in Nat
      BY <1>1, <1>2, <2>2, <3>2, <3>3, FrameFacts
    <3> QED BY <1>2, <2>2, <3>1, <3>2, <3>4
  <2>3. i + 1 \in 1..(n - 1) \/ i + 1 = n
    BY <1>1
  <2> QED BY <2>1, <2>2, <2>3
<1> QED BY <1>1, <1>2, <1>3 DEF VisitedElement

LEMMA BehindStays ==
  ASSUME FinInv, NEW n, NEW m, StackStep(n, m), NEW j \in 1..n, j <= m,
         NEW i \in 1..(j - 1), Visits(i)', Visits(j)'
  PROVE  Behind(i, j)'
<1>1. /\ n \in Nat \ {0} /\ n = Len(calls) /\ m \in {n - 1, n, n + 1}
      /\ i \in 1..(n - 1) /\ i < m /\ j \in 1..Len(calls) /\ calls'[i] = calls[i]
  BY DoingFacts DEF StackStep, FinInv
<1>2. calls'[j].call = calls[j].call
      /\ (calls[j].call = "sec" => calls'[j].base = calls[j].base)
  <2>1. CASE j \in 1..(n - 1)
    BY <2>1 DEF StackStep
  <2>2. CASE j = n
    BY <1>1, <2>2 DEF StackStep, SameCall
  <2> QED BY <1>1, <2>1, <2>2
<1>3. Visits(i) /\ Visits(j)
  BY <1>1, <1>2 DEF Visits
<1>4. Behind(i, j)
  BY <1>1, <1>3 DEF FinInv, ContentsOK
<1>5. calls'[j].base = calls[j].base
  BY <1>2, <1>3 DEF Visits
<1>6. ASSUME NEW k \in ToVisit(calls'[i]), NEW r \in Nat,
             Below_(calls'[j].base.obj, calls'[i].base.obj, k, r)
      PROVE  VisitedElement(i, k, r)'
  <2>1. VisitedElement(i, k, r)
    BY <1>1, <1>4, <1>5, <1>6 DEF Behind
  <2> QED BY <1>1, <2>1, VisitedStays
<1>7. Len(calls'[i].base.obj) < Len(calls'[j].base.obj)
  BY <1>1, <1>4, <1>5 DEF Behind
<1> QED BY <1>6, <1>7 DEF Behind

(* A caller still has everything ahead of it, when what has been freed is  *)
(* in objects that it has passed.                                          *)
LEMMA AheadStays ==
  ASSUME FinInv, NEW n, NEW m, StackStep(n, m), NEW i \in 1..(n - 1), Visits(i),
         i < m \/ calls[n].call = "sec", freed \subseteq freed',
         NEW O, \A o, k : SpentIn(freed', o, k) => SpentIn(freed, o, k) \/ o \in O,
         \A o \in O : /\ Len(calls[i].base.obj) < Len(o)
                      /\ \A k \in ToVisit(calls[i]), r \in Nat :
                           Below_(o, calls[i].base.obj, k, r) => VisitedElement(i, k, r)
  PROVE  Ahead(i)'
<1>1. /\ n \in Nat \ {0} /\ n = Len(calls) /\ i \in 1..Len(calls) /\ i # Len(calls)
      /\ calls'[i] = calls[i] /\ calls[i].base.obj \in Path
  <2>1. /\ n \in Nat \ {0} /\ n = Len(calls) /\ i \in 1..Len(calls) /\ i # Len(calls)
        /\ calls'[i] = calls[i] /\ calls[i] \in CallFrame
    BY DoingFacts DEF StackStep, FinInv
  <2> QED BY <2>1, FrameFacts DEF Visits
<1>2. Ahead(i)
  BY <1>1 DEF FinInv, ContentsOK
<1>3. ASSUME NEW k \in ToVisit(calls[i])
      PROVE  ~SpentIn(freed', calls[i].base.obj, k)
  <2>1. ~SpentIn(freed, calls[i].base.obj, k)
    BY <1>1, <1>2 DEF Ahead, Spent
  <2>2. calls[i].base.obj \notin O
    <3>1. Len(calls[i].base.obj) \in Nat
      BY <1>1 DEF Path
    <3> QED BY <3>1
  <2> QED BY <2>1, <2>2
<1>4. ASSUME NEW k \in ToVisit(calls[i]), NEW o \in Path, NEW l \in Kw, NEW r \in Nat,
             Below_(o, calls[i].base.obj, k, r), SpentIn(freed', o, l)
      PROVE  VectorGone(i, k)' \/ VisitedElement(i, k, r)'
  <2>1. VectorGone(i, k) \/ VisitedElement(i, k, r)
    <3>1. CASE SpentIn(freed, o, l)
      BY <1>2, <1>4, <3>1 DEF Ahead, Spent
    <3>2. CASE o \in O
      BY <1>4, <3>2
    <3> QED BY <1>4, <3>1, <3>2
  <2>2. VectorGone(i, k) => VectorGone(i, k)'
    BY <1>1 DEF VectorGone
  <2>3. VisitedElement(i, k, r) => VisitedElement(i, k, r)'
    BY VisitedStays
  <2> QED BY <2>1, <2>2, <2>3
<1> QED BY <1>1, <1>3, <1>4 DEF Ahead, Spent

(* A vector whose elements are being destroyed, and the call for them *)
LEMMA VectorFrame ==
  ASSUME FinInv, NEW i \in 1..Len(calls), calls[i].call = "vec"
  PROVE  /\ i - 1 \in 1..Len(calls) /\ i > 1 /\ Visits(i - 1)
         /\ calls[i - 1].base.obj = calls[i].obj
         /\ Head(calls[i - 1].todo) = calls[i].kw
         /\ calls[i].kw \in ToVisit(calls[i - 1])
         /\ Schema[calls[i - 1].sec][calls[i].kw].type = "VSEC"
         /\ Vec(calls[i].obj, calls[i].kw) \in Contents \ freed
<1>1. CallOK(i) /\ Len(calls) \in Nat
  BY DEF FinInv, CallsOK
<1>2. i > 1 /\ i - 1 \in 1..Len(calls)
  <2>1. i # 1
    BY <1>1 DEF CallOK
  <2> QED BY <1>1, <2>1
<1>3. VectorCall(calls[i - 1], calls[i])
  BY <1>1, <1>2 DEF CallOK, InSectionCall, ElementCall
<1>4. calls[i].kw \in ToVisit(calls[i - 1])
  <2>1. CallOK(i - 1) /\ calls[i - 1] \in CallFrame /\ calls[i - 1].call = "sec"
    BY <1>2, <1>3, ElementOfSeq DEF FinInv, CallsOK, CallFrame, VectorCall
  <2>2. calls[i - 1] \in SecFrame /\ Distinct(calls[i - 1].todo)
    BY <2>1, FrameFacts DEF CallOK
  <2> QED BY <1>3, <2>2, AdvanceFacts DEF VectorCall
<1>5. Vec(calls[i].obj, calls[i].kw) \in Contents \ freed
  BY DEF FinInv, ContentsOK
<1> QED BY <1>2, <1>3, <1>4, <1>5 DEF VectorCall, Visits

(* It is not the vector of an object that is being visited further in.     *)
LEMMA VectorsDiffer ==
  ASSUME FinInv, NEW j \in 1..Len(calls), Visits(j), NEW i \in 1..(j - 1), calls[i].call = "vec"
  PROVE  calls[i].obj # calls[j].base.obj
<1>1. Len(calls) \in Nat /\ i \in 1..Len(calls)
  BY DEF FinInv, CallsOK
<1>2. /\ i - 1 \in 1..Len(calls) /\ i > 1 /\ Visits(i - 1)
      /\ calls[i - 1].base.obj = calls[i].obj
  BY <1>1, VectorFrame
<1>3. i - 1 \in 1..(j - 1)
  BY <1>1, <1>2
<1>4. Behind(i - 1, j)
  BY <1>2, <1>3 DEF FinInv, ContentsOK
<1>5. Len(calls[i].obj) < Len(calls[j].base.obj)
  BY <1>2, <1>4 DEF Behind
<1>6. calls[j].base.obj \in Path
  <2>1. calls[j] \in CallFrame
    BY ElementOfSeq DEF FinInv, CallsOK, CallFrame
  <2> QED BY <2>1, FrameFacts DEF Visits
<1>7. Len(calls[j].base.obj) \in Nat
  BY <1>6 DEF Path
<1> QED BY <1>5, <1>7

(* A step keeps the contents in order, when it does so for the calls on    *)
(* top of the stack.                                                       *)
LEMMA ContentsStep ==
  ASSUME FinInv, NEW n, NEW m, StackStep(n, m), Contents' = Contents,
         \A i \in 1..(n - 1) : Visits(i) => Ahead(i)',
         m >= n => (Visits(n)' => Ahead(n)'),
         m = n + 1 => (Visits(m)' => Ahead(m)' /\ \A i \in 1..n : Visits(i)' => Behind(i, m)'),
         \A i \in 1..n : i <= m /\ calls[i].call = "vec" =>
           Vec(calls[i].obj, calls[i].kw) \notin freed',
         m = n + 1 => (calls'[m].call = "vec" =>
                         Vec(calls'[m].obj, calls'[m].kw) \in Contents \ freed')
  PROVE  ContentsOK'
<1>1. /\ n \in Nat \ {0} /\ n = Len(calls) /\ m \in {n - 1, n, n + 1} /\ m = Len(calls')
      /\ \A i \in 1..m : i \in 1..(n - 1) \/ (i = n /\ m >= n) \/ (i = m /\ m = n + 1)
      /\ \A i \in 1..(n - 1) : calls'[i] = calls[i] /\ i \in 1..n /\ i <= m
      /\ n \in 1..n
  BY DoingFacts DEF StackStep, FinInv
<1>2. ASSUME NEW i \in 1..m, Visits(i)'
      PROVE  Ahead(i)'
  <2>1. CASE i \in 1..(n - 1)
    BY <1>1, <1>2, <2>1 DEF Visits
  <2>2. CASE i = n /\ m >= n
    BY <1>2, <2>2
  <2>3. CASE i = m /\ m = n + 1
    BY <1>2, <2>3
  <2> QED BY <1>1, <2>1, <2>2, <2>3
<1>3. ASSUME NEW j \in 1..m, NEW i \in 1..(j - 1), Visits(i)', Visits(j)'
      PROVE  Behind(i, j)'
  <2>1. CASE j \in 1..n /\ j <= m
    BY <1>3, <2>1, BehindStays
  <2>2. CASE j = m /\ m = n + 1
    <3>1. i \in 1..n
      BY <1>1, <2>2
    <3> QED BY <1>3, <2>2, <3>1
  <2>3. (j \in 1..n /\ j <= m) \/ (j = m /\ m = n + 1)
    BY <1>1
  <2> QED BY <2>1, <2>2, <2>3
<1>4. ASSUME NEW i \in 1..m, calls'[i].call = "vec"
      PROVE  Vec(calls'[i].obj, calls'[i].kw) \in Contents' \ freed'
  <2>1. CASE i \in 1..(n - 1)
    <3>1. calls'[i] = calls[i] /\ i \in 1..Len(calls) /\ i \in 1..n /\ i <= m
      BY <1>1, <2>1
    <3>2. Vec(calls[i].obj, calls[i].kw) \in Contents \ freed
      BY <1>4, <3>1, VectorFrame
    <3> QED BY <1>4, <3>1, <3>2
  <2>2. CASE i = n /\ m >= n
    <3>1. calls[n].call = "vec" /\ calls'[n].obj = calls[n].obj /\ calls'[n].kw = calls[n].kw
          /\ n <= m
      BY <1>1, <1>4, <2>2 DEF StackStep, SameCall
    <3>2. Vec(calls[n].obj, calls[n].kw) \in Contents \ freed
      BY <1>1, <3>1, VectorFrame
    <3> QED BY <1>1, <2>2, <3>1, <3>2
  <2>3. CASE i = m /\ m = n + 1
    BY <1>4, <2>3
  <2> QED BY <1>1, <2>1, <2>2, <2>3
<1> QED BY <1>1, <1>2, <1>3, <1>4 DEF ContentsOK

(* What the innermost call has yet to visit is still there.                *)
LEMMA TopAhead ==
  ASSUME FinInv, calls # <<>>, NEW n, n = Len(calls), Visits(n),
         NEW k \in ToVisit(calls[n]), ~VectorGone(n, k)
  PROVE  /\ ~SpentIn(freed, calls[n].base.obj, k)
         /\ \A o \in Path, l \in Kw, r \in Nat :
              Below_(o, calls[n].base.obj, k, r) => ~SpentIn(freed, o, l)
<1>1. n \in 1..n /\ n \in Nat
  BY DoingFacts DEF FinInv
<1>2. Ahead(n)
  BY <1>1 DEF FinInv, ContentsOK
<1>3. \A r : ~VisitedElement(n, k, r)
  BY <1>1 DEF VisitedElement
<1> QED BY <1>2, <1>3 DEF Ahead, Spent

(* It still is, when the call has visited one keyword more.                *)
LEMMA AheadAdvances ==
  ASSUME FinInv, NoVectorInElement, NEW k, Visit(k), NEW n, n = Len(calls),
         calls'[n] = Advanced(Doing), ~Doing.base.shifted,
         \A o, l : SpentIn(freed', o, l) =>
                     SpentIn(freed, o, l) \/ (o = Doing.base.obj /\ l = k)
  PROVE  Ahead(n)'
<1>1. /\ calls # <<>> /\ Doing = calls[n] /\ Doing \in SecFrame /\ Doing.call = "sec"
      /\ Doing.todo # <<>> /\ Distinct(Doing.todo) /\ k = Head(Doing.todo)
      /\ Doing.base.obj \in Path /\ Visits(n)
  <2>1. /\ calls # <<>> /\ Doing = calls[n] /\ Doing \in SecFrame /\ Doing.call = "sec"
        /\ Doing.todo # <<>> /\ Distinct(Doing.todo) /\ k = Head(Doing.todo)
    BY VisitFacts
  <2> QED BY <2>1 DEF SecFrame, Visits
<1>2. /\ ToVisit(calls'[n]) = ToVisit(Doing) \ {k} /\ calls'[n].base = Doing.base
  BY <1>1, AdvanceFacts
<1>3. ASSUME NEW l \in ToVisit(calls'[n])
      PROVE  /\ ~SpentIn(freed', Doing.base.obj, l)
             /\ \A o \in Path, q \in Kw, r \in Nat :
                  Below_(o, Doing.base.obj, l, r) => ~SpentIn(freed', o, q)
  <2>1. l \in ToVisit(calls[n]) /\ l # k /\ ~VectorGone(n, l)
    BY <1>1, <1>2 DEF VectorGone
  <2>2. /\ ~SpentIn(freed, Doing.base.obj, l)
        /\ \A o \in Path, q \in Kw, r \in Nat :
             Below_(o, Doing.base.obj, l, r) => ~SpentIn(freed, o, q)
    BY <1>1, <2>1, TopAhead
  <2>3. ASSUME NEW o \in Path, NEW r \in Nat, Below_(o, Doing.base.obj, l, r)
        PROVE  o # Doing.base.obj
    BY <1>1, <2>3 DEF Below_, Path
  <2> QED BY <2>1, <2>2, <2>3
<1> QED BY <1>2, <1>3 DEF Ahead, Spent

(* One that is no section has been visited. *)
LEMMA ContentsItem ==
  ASSUME FinInv, NoVectorInElement, NEW k \in Kw, ItemStep(k), Contents' = Contents
  PROVE  ContentsOK'
<1> DEFINE o0 == Doing.base.obj
<1>1. PICK C : /\ C \subseteq OwnContent(o0, k) \cap Contents
               /\ Doing.base.shifted => C = {}
               /\ freed' = freed \cup (NameOf(k) \cup C)
  BY DEF ItemStep, Free
<1>2. PICK n : n = Len(calls)
  OBVIOUS
<1>3. /\ calls # <<>> /\ n \in Nat \ {0} /\ Doing = calls[n] /\ Doing.call = "sec"
      /\ n \in 1..n /\ n - 1 # n + 1 /\ n # n + 1 /\ \A i \in 1..(n - 1) : i < n
      /\ \A i \in 1..n : i \in 1..(n - 1) \/ i = n
      /\ StackStep(n, n) /\ calls'[n] = Advanced(Doing)
      /\ Advanced(Doing).call = "sec" /\ Advanced(Doing).base = Doing.base
  <2>1. /\ calls # <<>> /\ n \in Nat \ {0} /\ Doing = calls[n] /\ Doing.call = "sec"
    BY <1>2, VisitFacts DEF ItemStep
  <2>2. /\ StackStep(n, n) /\ calls'[n] = Advanced(Doing)
        /\ SameCall(Advanced(Doing), Doing)
    BY <1>2, ItemCalls DEF ItemStep
  <2> QED BY <2>1, <2>2 DEF SameCall
<1>4. \A o, l : SpentIn(freed', o, l) =>
                  SpentIn(freed, o, l) \/ (~Doing.base.shifted /\ o = o0 /\ l = k)
  <2>1. \A o, l : ~SpentIn(NameOf(k), o, l)
    <3>1. \A b \in NameOf(k) : b[1] \notin ContentKind
      BY BlocksDiffer DEF NameOf, ContentKind
    <3> QED BY <3>1, SpentFacts
  <2>2. \A o, l : SpentIn(C, o, l) => o = o0 /\ l = k /\ ~Doing.base.shifted
    <3>1. C \subseteq OwnContent(o0, k) /\ \A o, l : ~SpentIn({}, o, l)
      BY <1>1 DEF SpentIn
    <3> HIDE DEF o0
    <3> QED BY <1>1, <3>1, SpentFacts
  <2>3. ASSUME NEW o, NEW l, SpentIn(freed', o, l)
        PROVE  SpentIn(freed, o, l) \/ SpentIn(NameOf(k), o, l) \/ SpentIn(C, o, l)
    BY <1>1, <2>3 DEF SpentIn
  <2> QED BY <2>1, <2>2, <2>3
<1>5. Visits(n) <=> ~Doing.base.shifted
  BY <1>3 DEF Visits
<1>6. ASSUME NEW i \in 1..(n - 1), Visits(i)
      PROVE  Ahead(i)'
  <2> DEFINE O == IF Doing.base.shifted THEN {} ELSE {o0}
  <2>1. \A o, l : SpentIn(freed', o, l) => SpentIn(freed, o, l) \/ o \in O
    BY <1>4
  <2>2. ASSUME NEW o \in O
        PROVE  /\ Len(calls[i].base.obj) < Len(o)
               /\ \A l \in ToVisit(calls[i]), r \in Nat :
                    Below_(o, calls[i].base.obj, l, r) => VisitedElement(i, l, r)
    <3>1. o = calls[n].base.obj /\ Visits(n)
      BY <1>3, <1>5
    <3>2. Behind(i, n)
      BY <1>2, <1>3, <1>6, <3>1 DEF FinInv, ContentsOK
    <3> QED BY <3>1, <3>2 DEF Behind
  <2> HIDE DEF O
  <2>3. freed \subseteq freed'
    BY <1>1
  <2> QED BY <1>3, <1>6, <2>1, <2>2, <2>3, AheadStays
<1>7. Visits(n)' => Ahead(n)'
  <2> SUFFICES ASSUME ~Doing.base.shifted PROVE Ahead(n)'
    BY <1>3 DEF Visits
  <2> QED BY <1>2, <1>3, <1>4, AheadAdvances DEF ItemStep
<1>8. ASSUME NEW i \in 1..n, calls[i].call = "vec"
      PROVE  Vec(calls[i].obj, calls[i].kw) \notin freed'
  <2>1. i \in 1..Len(calls) /\ i \in 1..(n - 1)
    BY <1>2, <1>3, <1>8
  <2>2. Vec(calls[i].obj, calls[i].kw) \notin freed
    BY <1>8, <2>1, VectorFrame
  <2>3. ~Doing.base.shifted => calls[i].obj # o0
    <3> SUFFICES ASSUME Visits(n) PROVE calls[i].obj # calls[n].base.obj
      BY <1>3, <1>5
    <3> QED BY <1>2, <1>3, <1>8, <2>1, VectorsDiffer
  <2>4. ASSUME ~Doing.base.shifted
        PROVE  Vec(calls[i].obj, calls[i].kw) \notin OwnContent(o0, k)
    BY <2>3, <2>4, BlocksDiffer DEF OwnContent
  <2>5. Vec(calls[i].obj, calls[i].kw) \notin NameOf(k)
    BY BlocksDiffer DEF NameOf
  <2> QED BY <1>1, <2>2, <2>4, <2>5
<1> QED BY <1>3, <1>6, <1>7, <1>8, ContentsStep

(* Where no contents are freed, *)
LEMMA NothingSpent ==
  ASSUME NEW B, freed' = freed \cup B, \A b \in B : b[1] \notin ContentKind
  PROVE  /\ \A o, l : SpentIn(freed', o, l) <=> SpentIn(freed, o, l)
         /\ \A o, l : Vec(o, l) \in freed' <=> Vec(o, l) \in freed
<1>1. \A o, l : ~SpentIn(B, o, l)
  BY SpentFacts
<1>2. ASSUME NEW o, NEW l, SpentIn(freed', o, l)
      PROVE  SpentIn(freed, o, l) \/ SpentIn(B, o, l)
  BY <1>2 DEF SpentIn
<1>3. \A o, l : SpentIn(freed, o, l) => SpentIn(freed', o, l)
  BY DEF SpentIn
<1>4. \A o, l : Vec(o, l) \notin B
  BY BlocksDiffer DEF ContentKind
<1> QED BY <1>1, <1>2, <1>3, <1>4

(* the callers have everything ahead of them still. *)
LEMMA CallersStay ==
  ASSUME FinInv, NEW n, NEW m, StackStep(n, m), m >= n \/ calls[n].call = "sec",
         NEW B, freed' = freed \cup B, \A b \in B : b[1] \notin ContentKind
  PROVE  /\ \A i \in 1..(n - 1) : Visits(i) => Ahead(i)'
         /\ \A i \in 1..n : calls[i].call = "vec" => Vec(calls[i].obj, calls[i].kw) \notin freed'
<1>1. /\ n \in Nat \ {0} /\ n = Len(calls) /\ m \in {n - 1, n, n + 1}
      /\ \A i \in 1..(n - 1) : i < m \/ calls[n].call = "sec"
  BY DoingFacts DEF StackStep, FinInv
<1>2. ASSUME NEW i \in 1..(n - 1), Visits(i)
      PROVE  Ahead(i)'
  <2>1. PICK O : O = {}
    OBVIOUS
  <2>2. \A o, l : SpentIn(freed', o, l) => SpentIn(freed, o, l) \/ o \in O
    BY NothingSpent
  <2>3. \A o \in O : /\ Len(calls[i].base.obj) < Len(o)
                     /\ \A k \in ToVisit(calls[i]), r \in Nat :
                          Below_(o, calls[i].base.obj, k, r) => VisitedElement(i, k, r)
    BY <2>1
  <2>4. freed \subseteq freed'
    OBVIOUS
  <2> QED BY <1>1, <1>2, <2>2, <2>3, <2>4, AheadStays
<1>3. ASSUME NEW i \in 1..n, calls[i].call = "vec"
      PROVE  Vec(calls[i].obj, calls[i].kw) \notin freed'
  <2>1. Vec(calls[i].obj, calls[i].kw) \notin freed
    BY <1>1, <1>3, VectorFrame
  <2> QED BY <2>1, NothingSpent
<1> QED BY <1>2, <1>3

(* A section is visited in the one that owns it. *)
LEMMA ContentsDown ==
  ASSUME FinInv, NoVectorInElement, NEW k \in Kw, NEW c \in Section, NEW b, DownStep(k, c, b),
         Contents' = Contents
  PROVE  ContentsOK'
<1> DEFINE o0 == Doing.base.obj
           g  == SecCall(c, b, Doing.destroy, Doing.destroy)
<1>1. PICK n : n = Len(calls)
  OBVIOUS
<1>2. PICK B : B = NameOf(k)
  OBVIOUS
<1>3. freed' = freed \cup B /\ (\A x \in B : x[1] \notin ContentKind) /\ Visit(k)
  BY <1>2, BlocksDiffer DEF DownStep, Free, NameOf, ContentKind
<1>4. /\ calls # <<>> /\ n \in Nat \ {0} /\ Doing = calls[n] /\ Doing.call = "sec"
      /\ Doing \in SecFrame /\ k = Head(Doing.todo) /\ k \in ToVisit(Doing)
      /\ n \in 1..n /\ n + 1 >= n /\ n + 1 # n /\ n - 1 # n
      /\ \A i \in 1..n : i \in 1..(n - 1) \/ i = n
  BY <1>1, <1>3, VisitFacts
<1>5. /\ StackStep(n, n + 1) /\ calls'[n] = Advanced(Doing) /\ calls'[n + 1] = g
      /\ SameCall(Advanced(Doing), Doing)
      /\ b \in [obj : Path, shifted : BOOLEAN]
  BY <1>1, DownCalls
<1>6. /\ Advanced(Doing).base = Doing.base /\ Advanced(Doing).call = "sec"
      /\ ToVisit(Advanced(Doing)) = ToVisit(Doing) \ {k}
      /\ g.base = b /\ g.call = "sec" /\ o0 \in Path
  <2>1. Advanced(Doing).base = Doing.base /\ Advanced(Doing).call = "sec" /\ o0 \in Path
    BY <1>4, <1>5 DEF SameCall, SecFrame
  <2>2. ToVisit(Advanced(Doing)) = ToVisit(Doing) \ {k}
    BY <1>1, <1>3, VisitFacts, AdvanceFacts
  <2>3. g.base = b /\ g.call = "sec"
    BY DEF SecCall
  <2> QED BY <2>1, <2>2, <2>3
<1>7. ~b.shifted => /\ ~Doing.base.shifted /\ b.obj = Append(o0, <<k, 0>>)
                    /\ At(k).type = "SEC"
  <2> SUFFICES ASSUME ~b.shifted
               PROVE  ~Doing.base.shifted /\ b.obj = Append(o0, <<k, 0>>) /\ At(k).type = "SEC"
    OBVIOUS
  <2>1. At(k).type = "SEC" /\ b = Below(k)
    BY DEF DownStep, AtVec
  <2>2. Doing.base \in [obj : Path, shifted : BOOLEAN]
    BY <1>4 DEF SecFrame
  <2>3. b = [Doing.base EXCEPT !.obj = Append(Doing.base.obj, <<k, 0>>)]
    BY <2>1 DEF Below
  <2> QED BY <2>1, <2>2, <2>3
<1> HIDE DEF g, o0
<1>8. /\ \A i \in 1..(n - 1) : Visits(i) => Ahead(i)'
      /\ \A i \in 1..n : calls[i].call = "vec" => Vec(calls[i].obj, calls[i].kw) \notin freed'
      /\ \A o, l : SpentIn(freed', o, l) <=> SpentIn(freed, o, l)
  BY <1>3, <1>4, <1>5, CallersStay, NothingSpent
<1>9. Visits(n)' => Ahead(n)'
  <2> SUFFICES ASSUME ~Doing.base.shifted PROVE Ahead(n)'
    BY <1>5, <1>6 DEF Visits
  <2> QED BY <1>1, <1>3, <1>5, <1>8, AheadAdvances
<1>10. ASSUME Visits(n + 1)'
       PROVE  Ahead(n + 1)' /\ \A i \in 1..n : Visits(i)' => Behind(i, n + 1)'
  <2>1. /\ ~Doing.base.shifted /\ b.obj = Append(o0, <<k, 0>>) /\ At(k).type = "SEC"
        /\ Visits(n) /\ calls'[n + 1].base.obj = b.obj /\ b.obj \in Path
    BY <1>4, <1>5, <1>6, <1>7, <1>10 DEF Visits
  <2>2. /\ Len(o0) \in Nat /\ Len(b.obj) = Len(o0) + 1 /\ 0 \in Nat
    BY <1>6, <2>1, PathAppend DEF Path
  <2>3. \A o \in Path, l \in Kw : Below_(o, o0, k, 0) => ~SpentIn(freed, o, l)
    <3>1. ~VectorGone(n, k)
      BY <1>4, <2>1 DEF VectorGone, At
    <3> QED BY <1>1, <1>4, <2>1, <2>2, <3>1, TopAhead DEF o0
  <2>4. Ahead(n + 1)'
    <3>1. \A l \in Kw : ~SpentIn(freed', b.obj, l)
      <4>1. Below_(b.obj, o0, k, 0)
        BY <1>6, <2>1, <2>2, BelowAppend
      <4> QED BY <1>8, <2>1, <2>3, <4>1
    <3>2. ASSUME NEW o \in Path, NEW q \in Kw, NEW l, NEW r \in Nat, Below_(o, b.obj, l, r)
          PROVE  ~SpentIn(freed', o, q)
      <4>1. Below_(o, o0, k, 0)
        BY <1>6, <2>1, <2>2, <3>2, BelowAppend
      <4> QED BY <1>8, <2>3, <4>1
    <3>3. ToVisit(calls'[n + 1]) \subseteq Kw
      <4>1. calls'[n + 1] \in CallFrame
        BY <1>1, DownCalls
      <4>2. calls'[n + 1].todo \in Seq(Kw)
        BY <1>5, <1>6, <4>1, FrameFacts
      <4>3. \A j \in 1..Len(calls'[n + 1].todo) : calls'[n + 1].todo[j] \in Kw
        BY <4>2, ElementOfSeq
      <4> QED BY <4>3 DEF ToVisit
    <3> QED BY <2>1, <3>1, <3>2, <3>3 DEF Ahead, Spent
  <2>5. ASSUME NEW i \in 1..n, Visits(i)'
        PROVE  Behind(i, n + 1)'
    <3>1. CASE i = n
      <4>1. /\ calls'[i].base.obj = o0 /\ ToVisit(calls'[i]) = ToVisit(Doing) \ {k}
        BY <1>5, <1>6, <3>1 DEF o0
      <4>2. ASSUME NEW l \in ToVisit(Doing) \ {k}, NEW r \in Nat, Below_(b.obj, o0, l, r)
            PROVE  FALSE
        <5>1. \A q, x : Below_(Append(o0, <<k, 0>>), o0, q, x) => q = k
          BY <1>6, <2>2, BelowAppend
        <5> QED BY <2>1, <4>2, <5>1
      <4>3. Len(o0) < Len(b.obj)
        BY <2>2
      <4> QED BY <2>1, <4>1, <4>2, <4>3 DEF Behind
    <3>2. CASE i \in 1..(n - 1)
      <4>1. calls'[i] = calls[i] /\ Visits(i) /\ i < n + 1
        BY <1>4, <1>5, <2>5, <3>2 DEF StackStep, Visits
      <4>2. Behind(i, n)
        BY <1>1, <1>4, <2>1, <3>2, <4>1 DEF FinInv, ContentsOK
      <4>3. calls[i].base.obj \in Path /\ Len(calls[i].base.obj) < Len(o0)
        <5>1. calls[i] \in CallFrame
          BY <1>1, <1>4, DoingFacts DEF FinInv
        <5> QED BY <1>4, <4>1, <4>2, <5>1, FrameFacts DEF Visits, Behind, o0
      <4>4. Len(calls[i].base.obj) < Len(b.obj)
        BY <2>2, <4>3 DEF Path
      <4>5. ASSUME NEW l \in ToVisit(calls[i]), NEW r \in Nat,
                   Below_(b.obj, calls[i].base.obj, l, r)
            PROVE  VisitedElement(i, l, r)'
        <5>1. Below_(o0, calls[i].base.obj, l, r)
          <6>1. PICK p \in Path : p = calls[i].base.obj
            BY <4>3
          <6>2. \A q, x : Len(p) < Len(o0) /\ Below_(Append(o0, <<k, 0>>), p, q, x)
                           => Below_(o0, p, q, x)
            BY <1>6, <2>2, BelowAppend
          <6>3. Len(p) < Len(o0) /\ Below_(Append(o0, <<k, 0>>), p, l, r)
            BY <2>1, <4>3, <4>5, <6>1
          <6> QED BY <6>1, <6>2, <6>3
        <5>2. VisitedElement(i, l, r)
          BY <1>4, <4>2, <5>1 DEF Behind, o0
        <5> QED BY <1>5, <3>2, <4>1, <5>2, VisitedStays
      <4> QED BY <2>1, <4>1, <4>4, <4>5 DEF Behind
    <3> QED BY <1>4, <3>1, <3>2
  <2> QED BY <2>4, <2>5
<1>11. calls'[n + 1].call # "vec"
  BY <1>5, <1>6
<1>12. PICK m : m = n + 1
  OBVIOUS
<1>13. /\ StackStep(n, m) /\ \A i \in 1..(n - 1) : Visits(i) => Ahead(i)'
       /\ Visits(n)' => Ahead(n)'
       /\ Visits(m)' => Ahead(m)' /\ \A i \in 1..n : Visits(i)' => Behind(i, m)'
       /\ \A i \in 1..n : calls[i].call = "vec" => Vec(calls[i].obj, calls[i].kw) \notin freed'
       /\ calls'[m].call # "vec"
  BY <1>5, <1>8, <1>9, <1>10, <1>11, <1>12
<1> QED BY <1>13, ContentsStep

(* The elements of a vector are about to be visited, *)
LEMMA ContentsVector ==
  ASSUME FinInv, NoVectorInElement, NEW k \in Kw, VectorStep(k), Contents' = Contents
  PROVE  ContentsOK'
<1> DEFINE g == VecCall(At(k).child, Doing.base.obj, k)
<1>1. PICK n : n = Len(calls)
  OBVIOUS
<1>2. PICK B : B = {}
  OBVIOUS
<1>3. freed' = freed \cup B /\ (\A x \in B : x[1] \notin ContentKind) /\ Visit(k) /\ Standing(k)
  BY <1>2 DEF VectorStep
<1>4. /\ calls # <<>> /\ n \in Nat \ {0} /\ Doing = calls[n] /\ Doing.call = "sec"
      /\ n \in 1..n /\ n + 1 >= n /\ k = Head(Doing.todo)
  BY <1>1, <1>3, VisitFacts
<1>5. /\ StackStep(n, n + 1) /\ calls'[n] = Doing /\ calls'[n + 1] = g
      /\ g.call = "vec" /\ g.obj = Doing.base.obj /\ g.kw = k
  BY <1>1, VectorCalls DEF VecCall
<1> HIDE DEF g
<1>6. /\ \A i \in 1..(n - 1) : Visits(i) => Ahead(i)'
      /\ \A i \in 1..n : calls[i].call = "vec" => Vec(calls[i].obj, calls[i].kw) \notin freed'
      /\ \A o, l : SpentIn(freed', o, l) <=> SpentIn(freed, o, l)
      /\ Vec(Doing.base.obj, k) \in Contents \ freed'
  BY <1>3, <1>4, <1>5, CallersStay, NothingSpent DEF Standing
<1>7. ASSUME Visits(n)' PROVE Ahead(n)'
  <2>1. Visits(n)
    BY <1>4, <1>5, <1>7 DEF Visits
  <2>2. ASSUME NEW l \in ToVisit(Doing)
        PROVE  /\ ~SpentIn(freed', Doing.base.obj, l)
               /\ \A o \in Path, q \in Kw, r \in Nat :
                    Below_(o, Doing.base.obj, l, r) => ~SpentIn(freed', o, q)
    <3>1. ~VectorGone(n, l) /\ l \in ToVisit(calls[n])
      BY <1>3, <1>4 DEF VectorGone, Standing
    <3> QED BY <1>1, <1>4, <1>6, <2>1, <3>1, TopAhead
  <2> QED BY <1>5, <2>2 DEF Ahead, Spent
<1>8. PICK m : m = n + 1
  OBVIOUS
<1>9. /\ StackStep(n, m) /\ ~Visits(m)'
      /\ Vec(calls'[m].obj, calls'[m].kw) \in Contents \ freed'
  BY <1>5, <1>6, <1>8 DEF Visits
<1> QED BY <1>6, <1>7, <1>9, ContentsStep

(* one is, *)
LEMMA ContentsElement ==
  ASSUME FinInv, NoVectorInElement, ElementStep, Contents' = Contents
  PROVE  ContentsOK'
<1> DEFINE f == NextElementOf(Doing)
           g == SecCall(Doing.sec, ElementBase(Doing), FALSE, FALSE)
<1>1. PICK n : n = Len(calls)
  OBVIOUS
<1>2. PICK B : B = {}
  OBVIOUS
<1>3. freed' = freed \cup B /\ (\A x \in B : x[1] \notin ContentKind)
  BY <1>2 DEF ElementStep, Free
<1>4. /\ StackStep(n, n + 1) /\ calls # <<>> /\ n > 1 /\ Doing.call = "vec"
      /\ Doing \in CallFrame /\ SameCall(f, Doing) /\ f.next = Doing.next + 1
      /\ calls'[n] = f /\ calls'[n + 1] = g /\ g \in CallFrame
      /\ g.base.obj = Append(Doing.obj, <<Doing.kw, Doing.next>>)
      /\ g.call = "sec"
  BY <1>1, ElementCalls DEF ElementCall
<1>5. /\ n \in Nat \ {0} /\ n \in 1..n /\ n + 1 >= n /\ n + 1 # n /\ Doing = calls[n] /\ n \in 1..Len(calls)
      /\ Doing.obj \in Path /\ Doing.kw \in Kw /\ Doing.next \in Nat
      /\ \A i \in 1..n : i \in 1..(n - 1) \/ i = n
      /\ f.call = "vec"
  BY <1>1, <1>4, DoingFacts, FrameFacts DEF FinInv, SameCall
<1> HIDE DEF f, g
<1>6. /\ \A i \in 1..(n - 1) : Visits(i) => Ahead(i)'
      /\ \A i \in 1..n : calls[i].call = "vec" => Vec(calls[i].obj, calls[i].kw) \notin freed'
      /\ \A o, l : SpentIn(freed', o, l) <=> SpentIn(freed, o, l)
  BY <1>3, <1>4, <1>5, CallersStay, NothingSpent
<1>7. PICK o0 \in Path, k \in Kw, x \in Nat : o0 = Doing.obj /\ k = Doing.kw /\ x = Doing.next
  BY <1>5
<1>8. PICK p : p = Append(o0, <<k, x>>)
  OBVIOUS
<1>9. p \in Path /\ Len(o0) \in Nat /\ Len(p) = Len(o0) + 1
  BY <1>8, PathAppend DEF Path
<1>10. /\ n - 1 \in 1..Len(calls) /\ Visits(n - 1) /\ calls[n - 1].base.obj = o0
      /\ Head(calls[n - 1].todo) = k /\ k \in ToVisit(calls[n - 1])
      /\ Schema[calls[n - 1].sec][k].type = "VSEC"
      /\ Vec(o0, k) \notin freed /\ n - 1 \in 1..(n - 1) /\ (n - 1) + 1 = n /\ n - 1 < n
  <2>1. n - 1 \in 1..(n - 1) /\ (n - 1) + 1 = n /\ n - 1 < n
    BY <1>4, <1>5
  <2> QED BY <1>4, <1>5, <1>7, <2>1, VectorFrame
<1>11. \A o \in Path, l \in Kw : Below_(o, o0, k, x) => ~SpentIn(freed, o, l)
  <2>1. Ahead(n - 1)
    BY <1>10 DEF FinInv, ContentsOK
  <2>2. ~VectorGone(n - 1, k)
    BY <1>10 DEF VectorGone
  <2>3. ~VisitedElement(n - 1, k, x)
    BY <1>5, <1>10, <1>7 DEF VisitedElement
  <2> QED BY <1>10, <2>1, <2>2, <2>3 DEF Ahead, Spent
<1>12. calls'[n + 1].base.obj = p
  BY <1>4, <1>8, <1>7
<1>13. Ahead(n + 1)'
  <2>1. \A l \in Kw : ~SpentIn(freed', p, l)
    <3>1. Below_(p, o0, k, x)
      BY <1>8, BelowAppend
    <3> QED BY <1>6, <1>9, <1>11, <3>1
  <2>2. ASSUME NEW o \in Path, NEW q \in Kw, NEW l, NEW r \in Nat, Below_(o, p, l, r)
        PROVE  ~SpentIn(freed', o, q)
    <3>1. Below_(o, o0, k, x)
      BY <1>8, <2>2, BelowAppend
    <3> QED BY <1>6, <1>11, <3>1
  <2>3. ToVisit(calls'[n + 1]) \subseteq Kw
    <3>1. calls'[n + 1].todo \in Seq(Kw)
      BY <1>4, FrameFacts
    <3>2. \A j \in 1..Len(calls'[n + 1].todo) : calls'[n + 1].todo[j] \in Kw
      BY <3>1, ElementOfSeq
    <3> QED BY <3>2 DEF ToVisit
  <2> QED BY <1>12, <2>1, <2>2, <2>3 DEF Ahead, Spent
<1>14. ASSUME NEW i \in 1..n, Visits(i)'
       PROVE  Behind(i, n + 1)'
  <2>1. i \in 1..(n - 1)
    BY <1>4, <1>5, <1>14 DEF Visits
  <2>2. calls'[i] = calls[i] /\ Visits(i) /\ i < n + 1
    BY <1>4, <1>5, <1>14, <2>1 DEF StackStep, Visits
  <2>3. CASE i = n - 1
    <3>1. \A l, r : Below_(p, o0, l, r) => l = k /\ r = x
      <4>1. \A l, r : Below_(Append(o0, <<k, x>>), o0, l, r) => l = k /\ r = x
        BY BelowAppend
      <4> QED BY <1>8, <4>1
    <3>2. VisitedElement(i, k, x)'
      <4>1. x < calls'[n].next /\ calls'[n].call = "vec" /\ n - 1 < Len(calls')
        BY <1>4, <1>5, <1>7 DEF StackStep
      <4> QED BY <1>10, <2>2, <2>3, <4>1 DEF VisitedElement
    <3>3. calls'[i].base.obj = o0 /\ Len(o0) < Len(p)
      BY <1>9, <1>10, <2>2, <2>3
    <3>4. \A l \in ToVisit(calls'[i]), r \in Nat :
            Below_(p, o0, l, r) => VisitedElement(i, l, r)'
      BY <3>1, <3>2
    <3> QED BY <1>12, <3>3, <3>4 DEF Behind
  <2>4. CASE i < n - 1
    <3>1. Behind(i, n - 1)
      <4>1. i \in 1..((n - 1) - 1)
        BY <1>5, <2>1, <2>4
      <4> QED BY <1>10, <2>2, <4>1 DEF FinInv, ContentsOK
    <3>2. PICK q : q = calls[i].base.obj
      OBVIOUS
    <3>3. q \in Path /\ Len(q) < Len(o0)
      <4>1. calls[i] \in CallFrame
        BY <1>1, <1>4, <2>1, DoingFacts DEF FinInv
      <4> QED BY <1>10, <2>2, <3>1, <3>2, <4>1, FrameFacts DEF Visits, Behind
    <3>4. Len(q) < Len(p)
      BY <1>9, <3>3 DEF Path
    <3>5. ASSUME NEW l \in ToVisit(calls[i]), NEW r \in Nat, Below_(p, q, l, r)
          PROVE  VisitedElement(i, l, r)'
      <4>1. Below_(o0, q, l, r)
        <5>1. \A y, z : Len(q) < Len(o0) /\ Below_(Append(o0, <<k, x>>), q, y, z) => Below_(o0, q, y, z)
          BY <3>3, BelowAppend
        <5> QED BY <1>8, <3>3, <3>5, <5>1
      <4>2. VisitedElement(i, l, r)
        BY <1>10, <3>1, <3>2, <4>1 DEF Behind
      <4> QED BY <1>4, <2>1, <2>2, <4>2, VisitedStays
    <3> QED BY <1>12, <2>2, <3>2, <3>4, <3>5 DEF Behind
  <2> QED BY <1>5, <2>1, <2>3, <2>4
<1>15. PICK m : m = n + 1
  OBVIOUS
<1>16. /\ StackStep(n, m) /\ ~Visits(n)' /\ Ahead(m)' /\ \A i \in 1..n : Visits(i)' => Behind(i, m)'
       /\ calls'[m].call # "vec"
  BY <1>4, <1>5, <1>13, <1>14, <1>15 DEF Visits
<1> QED BY <1>6, <1>16, ContentsStep

(* and after the last one the vector is freed. *)
LEMMA ContentsDestroyed ==
  ASSUME FinInv, ElementsDestroyed, Contents' = Contents
  PROVE  ContentsOK'
<1>1. PICK n : n = Len(calls)
  OBVIOUS
<1>2. /\ calls # <<>> /\ Doing.call = "vec" /\ calls' = Others
      /\ freed' = freed \cup {Vec(Doing.obj, Doing.kw)}
  BY DEF ElementsDestroyed, Finalizing, FinInv, PhaseOK, Free
<1>3. PICK m : m = n - 1
  OBVIOUS
<1>4. /\ n \in Nat \ {0} /\ Doing = calls[n] /\ n \in 1..Len(calls) /\ StackStep(n, m)
      /\ Doing \in CallFrame /\ m = Len(calls') /\ ~(m >= n) /\ m # n + 1
      /\ \A i \in 1..n : i <= m => i \in 1..(n - 1)
  BY <1>1, <1>2, <1>3, DoingFacts, PoppedCalls DEF FinInv, StackStep
<1>5. PICK o0 \in Path, k \in Kw : o0 = Doing.obj /\ k = Doing.kw
  BY <1>2, <1>4, FrameFacts
<1>6. /\ m \in 1..Len(calls) /\ m > 0 /\ Visits(m) /\ calls[m].base.obj = o0
      /\ Head(calls[m].todo) = k /\ Schema[calls[m].sec][k].type = "VSEC"
      /\ calls'[m] = calls[m] /\ Len(o0) \in Nat
  <2>1. /\ m \in 1..Len(calls) /\ Visits(m) /\ calls[m].base.obj = o0
        /\ Head(calls[m].todo) = k /\ Schema[calls[m].sec][k].type = "VSEC"
    BY <1>2, <1>3, <1>4, <1>5, VectorFrame
  <2>2. m \in 1..(n - 1) /\ m > 0
    BY <1>3, <1>4, <2>1
  <2> QED BY <1>4, <2>1, <2>2 DEF StackStep, Path
<1>7. \A o, l : SpentIn(freed', o, l) => SpentIn(freed, o, l) \/ (o = o0 /\ l = k)
  <2>1. PICK B : B = {Vec(o0, k)}
    OBVIOUS
  <2>2. B \subseteq OwnContent(o0, k) /\ freed' = freed \cup B
    BY <1>2, <1>5, <2>1 DEF OwnContent
  <2>3. ASSUME NEW o, NEW l, SpentIn(freed', o, l)
        PROVE  SpentIn(freed, o, l) \/ SpentIn(B, o, l)
    BY <2>2, <2>3 DEF SpentIn
  <2>4. \A o, l : SpentIn(B, o, l) => o = o0 /\ l = k
    BY <2>2, SpentFacts
  <2> QED BY <2>3, <2>4
<1>8. ASSUME NEW i \in 1..(n - 1), Visits(i), i # m
      PROVE  Ahead(i)'
  <2>1. PICK O : O = {o0}
    OBVIOUS
  <2>2. \A o, l : SpentIn(freed', o, l) => SpentIn(freed, o, l) \/ o \in O
    BY <1>7, <2>1
  <2>3. i < m /\ i \in 1..(m - 1)
    BY <1>3, <1>4, <1>8
  <2>4. \A o \in O : /\ Len(calls[i].base.obj) < Len(o)
                     /\ \A l \in ToVisit(calls[i]), r \in Nat :
                          Below_(o, calls[i].base.obj, l, r) => VisitedElement(i, l, r)
    <3>1. Behind(i, m)
      BY <1>6, <1>8, <2>3 DEF FinInv, ContentsOK
    <3> QED BY <1>6, <2>1, <3>1 DEF Behind
  <2>5. freed \subseteq freed'
    BY <1>2
  <2> QED BY <1>4, <1>8, <2>2, <2>3, <2>4, <2>5, AheadStays
<1>9. Ahead(m)'
  <2>1. Ahead(m)
    BY <1>6 DEF FinInv, ContentsOK
  <2>2. VectorGone(m, k)'
    BY <1>2, <1>5, <1>6 DEF VectorGone
  <2>3. ASSUME NEW l \in ToVisit(calls[m]), SpentIn(freed', o0, l)
        PROVE  l = k
    <3>1. ~SpentIn(freed, o0, l)
      BY <1>3, <1>4, <1>6, <2>1 DEF Ahead, Spent, StackStep
    <3> QED BY <1>7, <2>3, <3>1
  <2>4. ASSUME NEW l \in ToVisit(calls[m]), NEW o \in Path, NEW q \in Kw, NEW r \in Nat,
               Below_(o, o0, l, r), SpentIn(freed', o, q)
        PROVE  VectorGone(m, l)'
    <3>1. o # o0
      BY <1>6, <2>4 DEF Below_
    <3>2. VectorGone(m, l) \/ VisitedElement(m, l, r)
      BY <1>6, <1>7, <2>1, <2>4, <3>1 DEF Ahead, Spent
    <3>3. l = k
      BY <1>6, <3>2 DEF VectorGone, VisitedElement
    <3> QED BY <2>2, <3>3
  <2>5. ASSUME NEW l \in ToVisit(calls'[m]), SpentIn(freed', calls'[m].base.obj, l)
        PROVE  m = Len(calls') /\ VectorGone(m, l)'
    <3>1. l = k
      BY <1>6, <2>3, <2>5
    <3> QED BY <1>4, <2>2, <3>1
  <2>6. \A l \in ToVisit(calls'[m]), o \in Path, q \in Kw, r \in Nat :
          Below_(o, calls'[m].base.obj, l, r) /\ SpentIn(freed', o, q) => VectorGone(m, l)'
    BY <1>6, <2>4
  <2> QED BY <2>5, <2>6 DEF Ahead, Spent
<1>10. ASSUME NEW i \in 1..(n - 1), calls[i].call = "vec"
       PROVE  Vec(calls[i].obj, calls[i].kw) \notin freed'
  <2>1. i \in 1..Len(calls) /\ i \in 1..(m - 1)
    <3>1. i # m
      BY <1>6, <1>10 DEF Visits
    <3> QED BY <1>1, <1>3, <1>4, <3>1
  <2>2. Vec(calls[i].obj, calls[i].kw) \notin freed
    BY <1>10, <2>1, VectorFrame
  <2>3. calls[i].obj # o0
    BY <1>6, <1>10, <2>1, VectorsDiffer
  <2> QED BY <1>2, <1>5, <2>2, <2>3, BlocksDiffer
<1>11. \A i \in 1..(n - 1) : Visits(i) => Ahead(i)'
  BY <1>8, <1>9
<1> QED BY <1>4, <1>10, <1>11, ContentsStep

(* A section is done with. *)
LEMMA ContentsDone ==
  ASSUME FinInv, SectionDone, Contents' = Contents
  PROVE  ContentsOK'
<1>1. PICK n : n = Len(calls)
  OBVIOUS
<1>2. PICK B : B = OwnMemory(Doing)
  OBVIOUS
<1>3. /\ calls # <<>> /\ Doing.call = "sec" /\ calls' = Others
      /\ freed' = freed \cup B /\ \A b \in B : b[1] \notin ContentKind
  <2>1. \A b \in OwnMemory(Doing) : b[1] \notin ContentKind
    BY BlocksDiffer DEF OwnMemory, ContentKind
  <2> QED BY <1>2, <2>1 DEF SectionDone, Finalizing, FinInv, PhaseOK, Free
<1>4. PICK m : m = n - 1
  OBVIOUS
<1>5. /\ n \in Nat \ {0} /\ Doing = calls[n] /\ StackStep(n, m)
      /\ ~(m >= n) /\ m # n + 1
  BY <1>1, <1>3, <1>4, DoingFacts, PoppedCalls DEF FinInv, StackStep
<1>6. /\ \A i \in 1..(n - 1) : Visits(i) => Ahead(i)'
      /\ \A i \in 1..n : calls[i].call = "vec" => Vec(calls[i].obj, calls[i].kw) \notin freed'
  <2>1. calls[n].call = "sec"
    BY <1>3, <1>5
  <2> QED BY <1>3, <1>5, <2>1, CallersStay
<1> QED BY <1>5, <1>6, ContentsStep

-----------------------------------------------------------------------------
(* Every step of a finalisation keeps the invariant. *)

LEMMA PhaseGoesOn ==
  ASSUME FinInv, Finalizing, GoesOn, freed \subseteq freed', calls' # <<>>
  PROVE  PhaseOK'
BY DEF FinInv, PhaseOK, Finalizing, GoesOn

(* Blocks that are there and still are not freed are freed rightly. *)
LEMMA FreedRightly ==
  ASSUME FinInv, NEW B, Free(B), B \cap freed = {}, B \subseteq Allocated, finals' = finals
  PROVE  FreedOnce'
<1>1. misfreed' = misfreed
  BY DEF Free
<1> QED BY <1>1 DEF FinInv, FreedOnce

LEMMA NameFreed ==
  ASSUME FinInv, NoVectorInElement, NEW k, Visit(k)
  PROVE  NameOf(k) \cap freed = {} /\ NameOf(k) \subseteq Allocated
<1>1. Doing.sec \in Section /\ k \in DOMAIN Schema[Doing.sec] /\ ~Passed(Doing.sec, k)
  BY VisitFacts
<1>2. Name(Doing.sec, k) \notin freed /\ Name(Doing.sec, k) \in Allocated
  BY <1>1, BlocksAllocated DEF FinInv, NamesOK
<1> QED BY <1>2 DEF NameOf

LEMMA ItemKeeps ==
  ASSUME FinInv, NoVectorInElement, NEW k \in Kw, ItemStep(k), Contents' = Contents
  PROVE  FinInv'
<1>1. PICK C : /\ C \subseteq OwnContent(Doing.base.obj, k) \cap Contents
               /\ Doing.base.shifted => C = {}
               /\ Free(NameOf(k) \cup C)
  BY DEF ItemStep
<1>2. PICK n : n = Len(calls)
  OBVIOUS
<1>3. /\ Visit(k) /\ At(k).type \notin {"SEC", "VSEC"} /\ GoesOn /\ Finalizing /\ calls' = ItemDone
      /\ freed' = freed \cup (NameOf(k) \cup C)
  BY <1>1 DEF ItemStep, Visit, Free
<1>4. /\ calls # <<>> /\ n \in Nat \ {0} /\ Doing = calls[n] /\ Doing.call = "sec"
      /\ n # n + 1 /\ n >= n /\ ~Ended(Doing.sec) /\ k \in ToVisit(Doing) /\ k = Head(Doing.todo)
  BY <1>2, <1>3, VisitFacts
<1>5. CallsOK' /\ StackStep(n, n) /\ calls'[n] = Advanced(Doing)
  BY <1>2, <1>3, ItemCalls
<1>6. \A b \in C : b[1] \notin RegisteredKind
  BY <1>1, ContentKinds DEF ContentKind, RegisteredKind
<1>7. TreeOK'
  <2>1. CASE Doing.destroy
    <3>1. freed' = freed \cup {Name(Doing.sec, k)} \cup C
      BY <1>3, <2>1 DEF NameOf
    <3>2. PICK c \in Section : TRUE
      BY ParserAssumption
    <3>4. PICK m : m = n
      OBVIOUS
    <3>3. /\ StackStep(n, m) /\ m >= n /\ m # n + 1
          /\ calls'[n] = Advanced(Doing) /\ At(k).type \notin {"SEC", "VSEC"}
      BY <1>3, <1>4, <1>5, <3>4
    <3> QED BY <1>3, <1>6, <2>1, <3>1, <3>3, TreeAdvances
  <2>2. CASE ~Doing.destroy
    <3>1. freed' = freed \cup C
      BY <1>3, <2>2 DEF NameOf
    <3> QED BY <1>4, <1>5, <1>6, <2>2, <3>1, TreeStays
  <2> QED BY <2>1, <2>2
<1>8. ContentsOK'
  BY ContentsItem
<1>9. PhaseOK'
  <2>1. calls' # <<>>
    BY <1>4, <1>5 DEF StackStep
  <2> QED BY <1>3, <2>1, PhaseGoesOn
<1>10. FreedOnce'
  <2>1. C \cap freed = {}
    <3>1. CASE Doing.base.shifted
      BY <1>1, <3>1
    <3>2. CASE ~Doing.base.shifted
      <4>1. Visits(n) /\ ~VectorGone(n, k) /\ k \in ToVisit(calls[n])
        BY <1>3, <1>4, <3>2 DEF Visits, VectorGone, At
      <4>2. ~SpentIn(freed, Doing.base.obj, k)
        BY <1>2, <1>4, <4>1, TopAhead
      <4> QED BY <1>1, <4>2 DEF SpentIn
    <3> QED BY <3>1, <3>2
  <2>2. C \subseteq Allocated
    BY <1>1, BlocksAllocated
  <2>3. finals' = finals
    BY <1>3 DEF GoesOn
  <2>4. NameOf(k) \cap freed = {} /\ NameOf(k) \subseteq Allocated
    BY <1>3, NameFreed
  <2>5. (NameOf(k) \cup C) \cap freed = {} /\ NameOf(k) \cup C \subseteq Allocated
    BY <2>1, <2>2, <2>4
  <2> QED BY <1>1, <2>3, <2>5, FreedRightly
<1> QED BY <1>5, <1>7, <1>8, <1>9, <1>10 DEF FinInv, TreeOK

LEMMA DownKeeps ==
  ASSUME FinInv, NoVectorInElement, NEW k \in Kw, NEW c \in Section, NEW b, DownStep(k, c, b),
         Contents' = Contents
  PROVE  FinInv'
<1> DEFINE g == SecCall(c, b, Doing.destroy, Doing.destroy)
<1>1. PICK n : n = Len(calls)
  OBVIOUS
<1>2. PICK m : m = n + 1
  OBVIOUS
<1>3. /\ Visit(k) /\ GoesOn /\ Finalizing /\ Free(NameOf(k)) /\ freed' = freed \cup NameOf(k)
      /\ Owns(Doing.sec, k, c) /\ Descriptor(c) \notin freed
  BY DEF DownStep, Visit, Free
<1>4. /\ calls # <<>> /\ n \in Nat \ {0} /\ Doing.call = "sec" /\ Doing \in SecFrame
      /\ m # n /\ m >= n /\ ~Ended(Doing.sec) /\ Doing.sec \in Section
  BY <1>1, <1>2, <1>3, VisitFacts
<1>5. /\ CallsOK' /\ StackStep(n, m) /\ calls'[n] = Advanced(Doing) /\ calls'[m] = g
      /\ b \in [obj : Path, shifted : BOOLEAN]
  BY <1>1, <1>2, DownCalls
<1>6. c # Top /\ ItemArray(c) \notin freed /\ ~EndedIn(freed, c)
  <2>1. c # Top
    BY <1>3, <1>4, TreeAssumption
  <2> QED BY <1>3, <2>1 DEF FinInv, ArraysOK, EndedIn
<1>7. /\ g.call = "sec" /\ g.sec = c /\ (g.destroy <=> Doing.destroy)
      /\ ToVisit(g) = DOMAIN Schema[c]
  <2>1. Doing.destroy \in BOOLEAN
    BY <1>4 DEF SecFrame
  <2> QED BY <1>5, <1>6, <2>1, SecCallFacts
<1> HIDE DEF g
<1>8. TreeOK'
  <2>1. PICK C : C = {}
    OBVIOUS
  <2>2. \A x \in C : x[1] \notin RegisteredKind
    BY <2>1
  <2>3. CASE Doing.destroy
    <3>1. freed' = freed \cup {Name(Doing.sec, k)} \cup C
      BY <1>3, <2>1, <2>3 DEF NameOf
    <3>2. Destroys(calls'[m], c) /\ ToVisit(calls'[m]) = DOMAIN Schema[c]
      BY <1>5, <1>7, <2>3 DEF Destroys
    <3>3. /\ StackStep(n, m) /\ m >= n /\ calls'[n] = Advanced(Doing) /\ Visit(k)
          /\ m = n => At(k).type \notin {"SEC", "VSEC"}
          /\ m = n + 1 => /\ Owns(Doing.sec, k, c) /\ Descriptor(c) \notin freed
                          /\ Destroys(calls'[m], c) /\ ToVisit(calls'[m]) = DOMAIN Schema[c]
      BY <1>3, <1>4, <1>5, <3>2
    <3> QED BY <2>2, <2>3, <3>1, <3>3, TreeAdvances
  <2>4. CASE ~Doing.destroy
    <3>1. freed' = freed \cup C
      BY <1>3, <2>1, <2>4 DEF NameOf
    <3>2. ~calls'[m].destroy /\ calls'[m].sec \in Section /\ ~EndedIn(freed, calls'[m].sec)
      BY <1>5, <1>6, <1>7, <2>4
    <3> QED BY <1>4, <1>5, <2>2, <2>4, <3>1, <3>2, TreeStays
  <2> QED BY <2>3, <2>4
<1>9. ContentsOK'
  BY ContentsDown
<1>10. PhaseOK'
  <2>1. calls' # <<>>
    BY <1>2, <1>4, <1>5 DEF StackStep
  <2> QED BY <1>3, <2>1, PhaseGoesOn
<1>11. FreedOnce'
  BY <1>3, NameFreed, FreedRightly DEF GoesOn
<1> QED BY <1>5, <1>8, <1>9, <1>10, <1>11 DEF FinInv, TreeOK

LEMMA VectorKeeps ==
  ASSUME FinInv, NoVectorInElement, NEW k \in Kw, VectorStep(k), Contents' = Contents
  PROVE  FinInv'
<1> DEFINE g == VecCall(At(k).child, Doing.base.obj, k)
<1>1. PICK n : n = Len(calls)
  OBVIOUS
<1>2. PICK m, B : m = n + 1 /\ B = {}
  OBVIOUS
<1>3. /\ Visit(k) /\ GoesOn /\ Finalizing /\ freed' = freed /\ misfreed' = misfreed
      /\ freed' = freed \cup B /\ \A b \in B : b[1] \notin RegisteredKind
  BY <1>2 DEF VectorStep, Visit
<1>4. /\ calls # <<>> /\ n \in Nat \ {0} /\ Doing = calls[n]
      /\ m >= n /\ ~Ended(Doing.sec) /\ Doing.sec \in Section
  BY <1>1, <1>2, <1>3, VisitFacts
<1>5. /\ CallsOK' /\ StackStep(n, m) /\ calls'[n] = Doing /\ calls'[m] = g
      /\ g.call = "vec" /\ g.sec = At(k).child
  BY <1>1, <1>2, VectorCalls DEF VecCall
<1> HIDE DEF g
<1>6. g.sec \in Section /\ ~EndedIn(freed, g.sec)
  <2>1. /\ Owns(Doing.sec, k, g.sec) /\ Descriptor(g.sec) \notin freed
        /\ k \in DOMAIN Schema[Doing.sec]
    BY <1>1, <1>3, <1>5, VisitFacts DEF VectorStep
  <2>2. g.sec \in Section
    BY <1>4, <1>5, <2>1, ParserAssumption DEF At
  <2>3. g.sec # Top
    BY <1>4, <2>1, ParserAssumption, TreeAssumption
  <2> QED BY <2>1, <2>2, <2>3 DEF EndedIn
<1>7. TreeOK'
  <2>1. /\ ToVisit(calls'[n]) = ToVisit(Doing) /\ calls'[m].call # "sec"
        /\ calls'[m].sec \in Section /\ ~EndedIn(freed, calls'[m].sec)
    BY <1>5, <1>6
  <2> QED BY <1>3, <1>4, <1>5, <2>1, TreeStays
<1>8. ContentsOK'
  BY ContentsVector
<1>9. PhaseOK'
  <2>1. calls' # <<>>
    BY <1>2, <1>4, <1>5 DEF StackStep
  <2> QED BY <1>3, <2>1, PhaseGoesOn
<1>10. FreedOnce'
  BY <1>3 DEF FinInv, FreedOnce, GoesOn
<1> QED BY <1>5, <1>7, <1>8, <1>9, <1>10 DEF FinInv, TreeOK

LEMMA ElementKeeps ==
  ASSUME FinInv, NoVectorInElement, ElementStep, Contents' = Contents
  PROVE  FinInv'
<1>1. PICK n : n = Len(calls)
  OBVIOUS
<1>2. PICK m, B : m = n + 1 /\ B = {}
  OBVIOUS
<1>3. /\ GoesOn /\ Finalizing /\ Free(B) /\ Doing.call = "vec"
      /\ freed' = freed \cup B /\ \A b \in B : b[1] \notin RegisteredKind
  BY <1>2 DEF ElementStep, Free
<1>4. /\ CallsOK' /\ StackStep(n, m) /\ calls # <<>> /\ n > 1
      /\ ~calls'[m].destroy /\ calls'[m].sec = Doing.sec
  BY <1>1, <1>2, ElementCalls, ZenonT(60) DEF ElementCall
<1>5. /\ n \in Nat \ {0} /\ n \in 1..n /\ Doing = calls[n] /\ n # 1 /\ m >= n /\ Doing.sec \in Section
  BY <1>1, <1>2, <1>4, DoingFacts DEF FinInv
<1>6. ~EndedIn(freed, Doing.sec)
  BY <1>1, <1>5 DEF FinInv, LiveOK, Ended
<1>7. TreeOK'
  <2>1. /\ ~Ended(Doing.sec) /\ Doing.call # "sec" /\ ~calls'[m].destroy
        /\ calls'[m].sec \in Section /\ ~EndedIn(freed, calls'[m].sec)
    BY <1>3, <1>4, <1>5, <1>6 DEF Ended
  <2> QED BY <1>3, <1>4, <2>1, TreeStays
<1>8. ContentsOK'
  BY ContentsElement
<1>9. PhaseOK'
  <2>1. calls' # <<>>
    BY <1>2, <1>4, <1>5 DEF StackStep
  <2> QED BY <1>3, <2>1, PhaseGoesOn
<1>10. FreedOnce'
  BY <1>2, <1>3, FreedRightly DEF GoesOn
<1> QED BY <1>4, <1>7, <1>8, <1>9, <1>10 DEF FinInv, TreeOK

LEMMA VectorDoneKeeps ==
  ASSUME FinInv, ElementsDestroyed, Contents' = Contents
  PROVE  FinInv'
<1>1. PICK n : n = Len(calls)
  OBVIOUS
<1>2. PICK m, B : m = n - 1 /\ B = {Vec(Doing.obj, Doing.kw)}
  OBVIOUS
<1>3. /\ GoesOn /\ Finalizing /\ Free(B) /\ Doing.call = "vec" /\ calls # <<>> /\ calls' = Others
      /\ freed' = freed \cup B
  BY <1>2 DEF ElementsDestroyed, Quiet, GoesOn, Free, Finalizing, FinInv, PhaseOK
<1>4. \A b \in B : b[1] \notin RegisteredKind
  BY <1>2, BlocksDiffer DEF RegisteredKind
<1>5. /\ CallsOK' /\ StackStep(n, m)
  BY <1>1, <1>2, <1>3, PoppedCalls
<1>6. /\ n \in 1..Len(calls) /\ n \in Nat \ {0} /\ Doing = calls[n] /\ m # n + 1
  BY <1>1, <1>2, <1>3, DoingFacts DEF FinInv
<1>7. n > 1 /\ Vec(Doing.obj, Doing.kw) \in Contents \ freed
  BY <1>3, <1>6, VectorFrame
<1>8. TreeOK'
  <2>1. ~Ended(Doing.sec)
    <3>1. n # 1
      BY <1>7
    <3> QED BY <1>1, <1>6, <3>1 DEF FinInv, LiveOK
  <2>2. Doing.call # "sec"
    BY <1>3
  <2> QED BY <1>3, <1>4, <1>5, <1>6, <2>1, <2>2, TreeStays
<1>9. ContentsOK'
  BY ContentsDestroyed
<1>10. PhaseOK'
  <2>1. m = Len(calls') /\ m # 0
    BY <1>2, <1>5, <1>6, <1>7 DEF StackStep
  <2>2. calls' # <<>>
    BY <2>1
  <2> QED BY <1>3, <2>2, PhaseGoesOn
<1>11. FreedOnce'
  <2>1. B \cap freed = {} /\ B \subseteq Allocated
    BY <1>2, <1>7, BlocksAllocated
  <2> QED BY <1>3, <2>1, FreedRightly DEF GoesOn
<1> QED BY <1>5, <1>8, <1>9, <1>10, <1>11 DEF FinInv, TreeOK

LEMMA SectionKeeps ==
  ASSUME FinInv, SectionDone, Contents' = Contents
  PROVE  FinInv'
<1>1. PICK n : n = Len(calls)
  OBVIOUS
<1>2. /\ Finalizing /\ calls # <<>> /\ Doing.call = "sec" /\ Doing.todo = <<>> /\ calls' = Others
      /\ Free(OwnMemory(Doing)) /\ freed' = freed \cup OwnMemory(Doing)
      /\ finals' = finals /\ fault' = fault
      /\ phase' = IF Others = <<>> THEN "done" ELSE phase
  BY DEF SectionDone, Finalizing, FinInv, PhaseOK, Free
<1>3. CallsOK'
  BY <1>2, PoppedCalls
<1>4. TreeOK'
  BY <1>2, TreeEnds
<1>5. ContentsOK'
  BY ContentsDone
<1>6. PhaseOK'
  <2>1. CASE Others = <<>>
    <3>1. n = 1
      <4>1. n \in Nat \ {0} /\ Len(Others) = n - 1
        BY <1>1, <1>2, DoingFacts DEF FinInv
      <4>2. n - 1 = 0
        BY <2>1, <4>1
      <4> QED BY <4>1, <4>2
    <3>2. ItemOrder[Top] = <<>> \/ ItemArray(Top) \in freed'
      <4>1. CallOK(1)
        BY <1>1, <1>2, <3>1, DoingFacts DEF FinInv
      <4>2. Doing.destroy
        BY <1>1, <1>2, <3>1, <4>1, DoingFacts DEF FinInv, CallOK
      <4>3. OwnMemory(Doing) = IF ItemOrder[Top] # <<>> /\ ItemArray(Top) \notin freed
                               THEN {ItemArray(Top)} ELSE {}
        BY <1>1, <1>2, <3>1, <4>2, SectionDoneFacts
      <4> QED BY <1>2, <4>3
    <3> QED BY <1>2, <2>1, <3>2 DEF FinInv, PhaseOK, Finalizing
  <2>2. CASE Others # <<>>
    BY <1>2, <2>2, PhaseGoesOn DEF GoesOn
  <2> QED BY <2>1, <2>2
<1>7. FreedOnce'
  <2>1. OwnMemory(Doing) \cap freed = {} /\ OwnMemory(Doing) \subseteq Allocated
    <3>1. Doing.sec \in Section
      BY <1>1, <1>2, DoingFacts DEF FinInv
    <3>2. CASE ~Doing.destroy
      BY <1>2, <3>2, SectionDoneFacts
    <3>3. CASE n = 1 /\ Doing.destroy
      <4>1. OwnMemory(Doing) = IF ItemOrder[Top] # <<>> /\ ItemArray(Top) \notin freed
                               THEN {ItemArray(Top)} ELSE {}
        BY <1>1, <1>2, <3>3, SectionDoneFacts
      <4> QED BY <4>1, BlocksAllocated, ParserAssumption
    <3>4. CASE n # 1 /\ Doing.destroy
      <4>1. /\ OwnMemory(Doing) = {Descriptor(Doing.sec)}
                 \cup IF ItemOrder[Doing.sec] # <<>> THEN {ItemArray(Doing.sec)} ELSE {}
            /\ Doing.sec # Top /\ ~Ended(Doing.sec) /\ ItemArray(Doing.sec) \notin freed
        BY <1>1, <1>2, <3>4, SectionDoneFacts
      <4>2. Descriptor(Doing.sec) \in Allocated
            /\ (ItemOrder[Doing.sec] # <<>> => ItemArray(Doing.sec) \in Allocated)
        BY <3>1, <4>1, BlocksAllocated
      <4> QED BY <4>1, <4>2 DEF Ended, EndedIn
    <3> QED BY <3>2, <3>3, <3>4
  <2> QED BY <1>2, <2>1, FreedRightly
<1> QED BY <1>3, <1>4, <1>5, <1>6, <1>7 DEF FinInv, TreeOK

(* What a step leaves alone *)
LEMMA SameStays ==
  ASSUME FinInv, UNCHANGED <<calls, freed>>, Contents' = Contents
  PROVE  CallsOK' /\ TreeOK' /\ ContentsOK'
<1>1. CallsOK'
  BY DEF FinInv, CallsOK, CallOK
<1>2. TreeOK'
  BY DEF FinInv, NamesOK, ChildrenOK, ArraysOK, LiveOK, Passed, Ended, TreeOK
<1>3. ContentsOK'
  <2>1. \A i, k : VectorGone(i, k)' <=> VectorGone(i, k)
    BY DEF VectorGone
  <2>2. \A i, k, r : VisitedElement(i, k, r)' <=> VisitedElement(i, k, r)
    BY DEF VisitedElement
  <2>3. \A i : Visits(i)' <=> Visits(i)
    BY DEF Visits
  <2>4. ASSUME NEW i, Ahead(i) PROVE Ahead(i)'
    BY <2>1, <2>2, <2>4 DEF Ahead, Spent
  <2>5. ASSUME NEW i, NEW j, Behind(i, j) PROVE Behind(i, j)'
    BY <2>2, <2>5 DEF Behind
  <2> QED BY <2>3, <2>4, <2>5 DEF FinInv, ContentsOK
<1> QED BY <1>1, <1>2, <1>3

LEMMA FinStepKeeps ==
  ASSUME FinInv, NoVectorInElement, FinStep
  PROVE  FinInv'
<1>1. UNCHANGED vars
  BY DEF FinStep, FreePlain, FreeString, FreeVector, FreeTable, FreeUser, FreeSection,
         DestroyElements, FreeElementSection, FreeWhatIsNone, Visit,
         DestroyElement, ElementsDestroyed, SectionDone
<1>2. Contents' = Contents
  BY <1>1 DEF vars, Contents, Stored
<1>3. CASE Stuck
  <2>1. UNCHANGED <<calls, freed, misfreed, finals>> /\ phase' = "dead" /\ fault' # "stale"
    BY <1>3 DEF Stuck
  <2>2. CallsOK' /\ TreeOK' /\ ContentsOK'
    BY <1>2, <2>1, SameStays
  <2>3. PhaseOK'
    <3>1. phase # "program"
      BY DEF FinStep, FreePlain, FreeString, FreeVector, FreeTable, FreeUser, FreeSection,
         DestroyElements, FreeElementSection, FreeWhatIsNone, Visit, Finalizing,
         DestroyElement, ElementsDestroyed, SectionDone
    <3> QED BY <2>1, <3>1 DEF FinInv, PhaseOK
  <2>4. FreedOnce'
    BY <2>1 DEF FinInv, FreedOnce
  <2> QED BY <2>2, <2>3, <2>4 DEF FinInv, TreeOK
<1>4. CASE \E k \in Kw : ItemStep(k) \/ VectorStep(k)
  BY <1>2, <1>4, ItemKeeps, VectorKeeps
<1>5. CASE \E k \in Kw, c \in Section : \E b : DownStep(k, c, b)
  BY <1>2, <1>5, DownKeeps
<1>6. CASE ElementStep
  BY <1>2, <1>6, ElementKeeps
<1>7. CASE ElementsDestroyed
  BY <1>2, <1>7, VectorDoneKeeps
<1>8. CASE SectionDone
  BY <1>2, <1>8, SectionKeeps
<1> QED BY <1>3, <1>4, <1>5, <1>6, <1>7, <1>8, FinStepShape

(* The first call of a finalisation *)
FirstCall == SecCall(Top, Own(<<>>), TRUE, FALSE)

LEMMA ClosedKinds ==
  \A b \in Closed : b[1] \notin RegisteredKind /\ b[1] \notin ContentKind
BY BlocksDiffer DEF Closed, RegisteredKind, ContentKind

LEMMA FirstCallFacts ==
  /\ FirstCall \in CallFrame /\ FirstCall.call = "sec" /\ FirstCall.sec = Top
  /\ FirstCall.destroy /\ ~FirstCall.release /\ FirstCall.base = Own(<<>>)
  /\ Distinct(FirstCall.todo) /\ ToVisit(FirstCall) \subseteq DOMAIN Schema[Top]
  /\ ItemArray(Top) \notin freed => ToVisit(FirstCall) = DOMAIN Schema[Top]
  /\ ItemArray(Top) \in freed \/ ItemOrder[Top] = <<>> => FirstCall.todo = <<>>
<1>1. PICK t \in Section, b \in [obj : Path, shifted : BOOLEAN], d \in BOOLEAN, r \in BOOLEAN :
        t = Top /\ b = Own(<<>>) /\ d = TRUE /\ r = FALSE
  <2>1. <<>> \in Path
    BY DEF Path
  <2>2. Own(<<>>) \in [obj : Path, shifted : BOOLEAN]
    BY <2>1 DEF Own
  <2>3. Top \in Section
    BY ParserAssumption
  <2> QED BY <2>2, <2>3
<1>2. FirstCall = SecCall(t, b, d, r)
  BY <1>1 DEF FirstCall
<1>3. /\ SecCall(t, b, d, r) \in CallFrame
      /\ SecCall(t, b, d, r).call = "sec" /\ SecCall(t, b, d, r).sec = t
      /\ SecCall(t, b, d, r).base = b
      /\ SecCall(t, b, d, r).destroy = d /\ SecCall(t, b, d, r).release = r
      /\ Distinct(SecCall(t, b, d, r).todo)
      /\ ToVisit(SecCall(t, b, d, r)) \subseteq DOMAIN Schema[t]
      /\ ItemArray(t) \notin freed => ToVisit(SecCall(t, b, d, r)) = DOMAIN Schema[t]
      /\ ItemArray(t) \in freed \/ ItemOrder[t] = <<>> => SecCall(t, b, d, r).todo = <<>>
  BY SecCallFacts
<1> QED BY <1>1, <1>2, <1>3

LEMMA Started ==
  ASSUME FinInv, calls = <<>>, freed' = freed \cup Closed, calls' = <<FirstCall>>,
         freed = {} \/ ItemOrder[Top] = <<>> \/ ItemArray(Top) \in freed
  PROVE  CallsOK' /\ TreeOK' /\ ContentsOK'
<1>1. PICK g : g = FirstCall
  OBVIOUS
<1>2. /\ g \in CallFrame /\ g.call = "sec" /\ g.sec = Top
      /\ g.destroy /\ ~g.release /\ g.base = Own(<<>>)
      /\ Distinct(g.todo) /\ ToVisit(g) \subseteq DOMAIN Schema[Top]
      /\ ItemArray(Top) \notin freed => ToVisit(g) = DOMAIN Schema[Top]
      /\ ItemArray(Top) \in freed \/ ItemOrder[Top] = <<>> => g.todo = <<>>
  BY <1>1, FirstCallFacts
<1>3. /\ calls' = <<g>> /\ Len(calls') = 1 /\ calls'[1] = g /\ calls' \in Seq(CallFrame)
      /\ \A i \in 1..Len(calls') : i = 1
      /\ Len(calls) = 0 /\ \A i \in 1..Len(calls) : FALSE
  BY <1>1, <1>2
<1>4. CallsOK'
  <2>1. CallOK(1)'
    <3>1. g.base.shifted = FALSE /\ (\A j \in 1..(1 - 1) : FALSE) /\ ~(1 > 1)
      BY <1>2 DEF Own
    <3> QED BY <1>2, <1>3, <3>1 DEF CallOK
  <2> QED BY <1>3, <2>1 DEF CallsOK, CallFrame
<1>5. /\ \A s : Descriptor(s) \in freed' <=> Descriptor(s) \in freed
      /\ \A s : ItemArray(s) \in freed' <=> ItemArray(s) \in freed
      /\ \A s : EndedIn(freed', s) <=> EndedIn(freed, s)
      /\ \A s, k : Name(s, k) \in freed' <=> Name(s, k) \in freed
  BY ClosedKinds, KindsKept
<1>6. ASSUME NEW s, NEW k \in DOMAIN Schema[s]
      PROVE  PassedBy(freed', calls', s, k) <=> PassedBy(freed, calls, s, k)
  <2>1. PassedBy(freed, calls, s, k) <=> EndedIn(freed, s)
    BY <1>3 DEF PassedBy
  <2>2. PassedBy(freed', calls', s, k) <=> EndedIn(freed, s) \/ (s = Top /\ k \notin ToVisit(g))
    <3>1. (\E i \in 1..Len(calls') : Destroys(calls'[i], s) /\ k \notin ToVisit(calls'[i]))
            <=> Destroys(g, s) /\ k \notin ToVisit(g)
      BY <1>3
    <3>2. Destroys(g, s) <=> s = Top
      BY <1>2 DEF Destroys
    <3> QED BY <1>5, <3>1, <3>2 DEF PassedBy
  <2>3. s = Top /\ k \notin ToVisit(g) => EndedIn(freed, s)
    BY <1>2 DEF EndedIn
  <2> QED BY <2>1, <2>2, <2>3
<1>7. TreeOK'
  <2>1. NamesOK'
    <3>1. ASSUME NEW s \in Section, NEW k \in DOMAIN Schema[s]
          PROVE  Name(s, k) \in freed' <=> PassedBy(freed', calls', s, k)
      BY <1>5, <1>6 DEF FinInv, NamesOK, Passed
    <3> QED BY <3>1 DEF NamesOK, Passed
  <2>2. ChildrenOK'
    <3>1. ASSUME NEW s \in Section, NEW c \in Section, NEW k \in Kw, Owns(s, k, c)
          PROVE  Descriptor(c) \in freed' <=> PassedBy(freed', calls', s, k)
      <4>1. k \in DOMAIN Schema[s]
        BY <3>1 DEF Owns
      <4>2. Descriptor(c) \in freed <=> PassedBy(freed, calls, s, k)
        BY <1>3, <3>1 DEF FinInv, ChildrenOK, Passed
      <4> QED BY <1>5, <1>6, <4>1, <4>2
    <3> QED BY <3>1 DEF ChildrenOK, Passed
  <2>3. ArraysOK'
    BY <1>5 DEF FinInv, ArraysOK
  <2>4. LiveOK'
    <3>1. EndedIn(freed', Top) => g.todo = <<>>
      BY <1>2, <1>5 DEF FinInv, ArraysOK, EndedIn
    <3> QED BY <1>2, <1>3, <3>1 DEF LiveOK, Ended
  <2> QED BY <2>1, <2>2, <2>3, <2>4 DEF TreeOK
<1>8. ContentsOK'
  <2>1. ASSUME NEW k \in ToVisit(g) PROVE \A o, l : ~SpentIn(freed', o, l)
    <3>1. g.todo # <<>>
      BY <2>1 DEF ToVisit
    <3>2. freed' = Closed
      BY <1>2, <3>1
    <3> QED BY <3>2, ClosedKinds, SpentFacts
  <2>2. Ahead(1)'
    BY <1>3, <2>1 DEF Ahead, Spent
  <2>3. \A j \in 1..Len(calls') : \A i \in 1..(j - 1) : FALSE
    BY <1>3
  <2> QED BY <1>2, <1>3, <2>2, <2>3 DEF ContentsOK
<1> QED BY <1>4, <1>7, <1>8

-----------------------------------------------------------------------------
(* Nothing is being finalised. *)
LEMMA AtRest ==
  ASSUME NEW c, NEW S, c = <<>>, S = {}, calls' = c, freed' = S, misfreed' = {}
  PROVE  CallsOK' /\ TreeOK' /\ ContentsOK' /\ FreedOnce'
<1>1. /\ calls' = <<>> /\ Len(calls') = 0 /\ freed' = {} /\ calls' \in Seq(SecFrame \cup VecFrame)
      /\ \A i \in 1..Len(calls') : FALSE
  OBVIOUS
<1>2. \A s : ~EndedIn(freed', s) /\ \A k : ~PassedBy(freed', calls', s, k)
  BY <1>1 DEF EndedIn, PassedBy
<1>3. TreeOK'
  <2>1. NamesOK' /\ ChildrenOK'
    BY <1>1, <1>2 DEF NamesOK, ChildrenOK, Passed
  <2>2. ArraysOK' /\ LiveOK'
    BY <1>1 DEF ArraysOK, LiveOK
  <2> QED BY <2>1, <2>2 DEF TreeOK
<1>4. FreedOnce'
  BY DEF FreedOnce
<1> QED BY <1>1, <1>3, <1>4 DEF CallsOK, ContentsOK

LEMMA FinInvInit ==
  ASSUME FinInit
  PROVE  FinInv
<1>1. /\ phase = "program" /\ finals = 0 /\ calls = <<>> /\ freed = {} /\ misfreed = {}
      /\ fault = "none"
  BY DEF FinInit
<1>2. Len(calls) = 0 /\ calls \in Seq(SecFrame \cup VecFrame) /\ \A i \in 1..Len(calls) : FALSE
  BY <1>1
<1>3. \A s : ~Ended(s) /\ \A k : ~Passed(s, k)
  BY <1>1, <1>2 DEF Ended, EndedIn, Passed, PassedBy
<1>4. NamesOK /\ ChildrenOK /\ ArraysOK /\ LiveOK
  BY <1>1, <1>2, <1>3 DEF NamesOK, ChildrenOK, ArraysOK, LiveOK
<1>5. CallsOK /\ ContentsOK /\ FreedOnce /\ PhaseOK
  BY <1>1, <1>2 DEF CallsOK, ContentsOK, FreedOnce, PhaseOK
<1> QED BY <1>4, <1>5 DEF FinInv

LEMMA FinInvNext ==
  ASSUME FinInv, NoVectorInElement, [FinNext]_fvars
  PROVE  FinInv'
<1>1. CASE UNCHANGED fvars
  <2>1. UNCHANGED <<phase, finals, calls, freed, misfreed, fault>> /\ Contents' = Contents
    BY <1>1 DEF fvars, finalizing, vars, Contents, Stored
  <2>2. CallsOK' /\ TreeOK' /\ ContentsOK'
    BY <2>1, SameStays
  <2>3. PhaseOK' /\ FreedOnce'
    BY <2>1 DEF FinInv, PhaseOK, FreedOnce
  <2> QED BY <2>2, <2>3 DEF FinInv, TreeOK
<1>2. CASE ParseBefore
  <2>1. /\ phase = "program" /\ finals' = 0 /\ phase' = "program"
        /\ calls' = <<>> /\ freed' = {} /\ misfreed' = {} /\ fault' # "stale"
    BY <1>2 DEF ParseBefore, finalizing, FinInv, PhaseOK
  <2>2. CallsOK' /\ TreeOK' /\ ContentsOK' /\ FreedOnce'
    BY <2>1, AtRest
  <2>3. PhaseOK'
    BY <2>1 DEF PhaseOK
  <2> QED BY <2>2, <2>3 DEF FinInv, TreeOK
<1>3. CASE Finalize
  <2>1. /\ phase' = "finalize" /\ finals' = 1 /\ fault' # "stale"
        /\ calls = <<>> /\ freed = {} /\ misfreed = {} /\ Free(Closed) /\ calls' = <<FirstCall>>
        /\ freed' = freed \cup Closed
    BY <1>3 DEF Finalize, FinInv, PhaseOK, FirstCall, Free
  <2>2. CallsOK' /\ TreeOK' /\ ContentsOK'
    BY <2>1, Started
  <2>3. PhaseOK'
    BY <2>1 DEF PhaseOK
  <2>4. FreedOnce'
    <3>1. misfreed' = {}
      BY <2>1, BlocksAllocated DEF Free
    <3> QED BY <3>1 DEF FreedOnce
  <2> QED BY <2>2, <2>3, <2>4 DEF FinInv, TreeOK
<1>4. CASE FinalizeAgain
  <2>1. /\ phase = "done" /\ calls = <<>> /\ finals \in Nat /\ finals >= 1 /\ finals' = finals + 1
        /\ ItemOrder[Top] = <<>> \/ ItemArray(Top) \in freed
        /\ Free(Closed) /\ freed' = freed \cup Closed
    BY <1>4 DEF FinalizeAgain, FinInv, PhaseOK, Free
  <2>2. finals' \in Nat /\ finals' > 1
    BY <2>1
  <2>3. FreedOnce'
    <3>1. misfreed \subseteq Closed
      BY DEF FinInv, FreedOnce
    <3>2. Closed \ Allocated = {}
      BY BlocksAllocated
    <3>3. misfreed' \subseteq Closed
      BY <2>1, <3>1, <3>2 DEF Free
    <3> QED BY <2>2, <3>3 DEF FreedOnce
  <2>4. CASE phase' = "finalize" /\ calls' = <<FirstCall>> /\ fault' = fault
    <3>1. CallsOK' /\ TreeOK' /\ ContentsOK'
      BY <2>1, <2>4, Started
    <3>2. PhaseOK'
      BY <2>1, <2>2, <2>4 DEF FinInv, PhaseOK
    <3> QED BY <2>3, <3>1, <3>2 DEF FinInv, TreeOK
  <2>5. CASE phase' = "dead" /\ fault' = "closed" /\ calls' = calls
    <3>1. /\ calls' = <<>> /\ Len(calls') = 0 /\ Len(calls) = 0
          /\ calls' \in Seq(SecFrame \cup VecFrame)
          /\ \A i \in 1..Len(calls') : FALSE
      BY <2>1, <2>5
    <3>2. CallsOK' /\ ContentsOK' /\ LiveOK'
      BY <3>1 DEF CallsOK, ContentsOK, LiveOK
    <3>3. /\ \A s : Descriptor(s) \in freed' <=> Descriptor(s) \in freed
          /\ \A s : ItemArray(s) \in freed' <=> ItemArray(s) \in freed
          /\ \A s : EndedIn(freed', s) <=> EndedIn(freed, s)
          /\ \A s, k : Name(s, k) \in freed' <=> Name(s, k) \in freed
      BY <2>1, ClosedKinds, KindsKept
    <3>4. \A s, k : PassedBy(freed', calls', s, k) <=> PassedBy(freed, calls, s, k)
      BY <2>1, <2>5, <3>1, <3>3 DEF PassedBy
    <3>5. NamesOK' /\ ArraysOK'
      BY <3>3, <3>4 DEF FinInv, NamesOK, ArraysOK, Passed
    <3>6. ChildrenOK'
      BY <2>1, <2>5, <3>3, <3>4 DEF FinInv, ChildrenOK, Passed
    <3>7. PhaseOK'
      BY <2>1, <2>2, <2>5 DEF FinInv, PhaseOK
    <3> QED BY <2>3, <3>2, <3>5, <3>6, <3>7 DEF FinInv
  <2>6. \/ phase' = "finalize" /\ calls' = <<FirstCall>> /\ fault' = fault
        \/ phase' = "dead" /\ fault' = "closed" /\ calls' = calls
    BY <1>4 DEF FinalizeAgain, FirstCall
  <2> QED BY <2>4, <2>5, <2>6
<1>5. CASE FinStep
  BY <1>5, FinStepKeeps
<1>6. CASE Over
  BY <1>1, <1>6 DEF Over
<1> QED BY <1>1, <1>2, <1>3, <1>4, <1>5, <1>6 DEF FinNext

-----------------------------------------------------------------------------
(* No call in progress is for a section that has been freed. *)
LEMMA FinInvNoDangling ==
  ASSUME FinInv
  PROVE  NoDangling
<1>1. calls \in Seq(CallFrame) /\ fault # "stale"
  BY DEF FinInv, CallsOK, PhaseOK, CallFrame
<1>2. ASSUME NEW i \in 1..Len(calls) PROVE Descriptor(calls[i].sec) \notin freed
  BY DEF FinInv, LiveOK, ArraysOK, Ended, EndedIn
<1> QED BY <1>1, <1>2 DEF NoDangling

(* A section that is being destroyed has an owner that has not ended.      *)
LEMMA FinInvOwnerLast ==
  ASSUME FinInv
  PROVE  OwnerLast
<1>1. ASSUME NEW s \in Section, Descriptor(s) \in freed
      PROVE  ItemArray(s) \in freed \/ ItemOrder[s] = <<>>
  BY <1>1 DEF FinInv, ArraysOK
<1>2. ASSUME NEW s \in Section, ItemArray(s) \in freed, NEW k \in DOMAIN Schema[s]
      PROVE  /\ Name(s, k) \in freed
             /\ Schema[s][k].type \in {"SEC", "VSEC"} => Descriptor(Schema[s][k].child) \in freed
  <2>1. Ended(s)
    BY <1>2 DEF FinInv, ArraysOK, Ended, EndedIn
  <2>2. Passed(s, k)
    BY <2>1 DEF Passed, PassedBy, Ended
  <2>3. Name(s, k) \in freed
    BY <2>2 DEF FinInv, NamesOK
  <2>4. ASSUME Schema[s][k].type \in {"SEC", "VSEC"}, NEW c, c = Schema[s][k].child,
               Descriptor(c) \notin freed
        PROVE  FALSE
    <3>1. Owns(s, k, c) /\ c \in Section /\ k \in Kw /\ c # Top
      <4>1. Owns(s, k, c) /\ c \in Section /\ k \in Kw
        BY <2>4, ParserAssumption DEF Owns
      <4> QED BY <4>1, TreeAssumption
    <3>2. PICK i \in 1..Len(calls) : Destroys(calls[i], c)
      BY <2>2, <2>4, <3>1 DEF FinInv, ChildrenOK
    <3>3. CallOK(i) /\ i > 1 /\ i - 1 \in 1..Len(calls) /\ Len(calls) # 1
      <4>1. CallOK(i) /\ Len(calls) \in Nat
        BY DEF FinInv, CallsOK
      <4>2. i # 1
        BY <3>1, <3>2, <4>1 DEF CallOK, Destroys
      <4> QED BY <3>2, <4>1, <4>2
    <3>4. InSectionCall(calls[i - 1], calls[i])
      BY <3>2, <3>3 DEF CallOK, VectorCall, ElementCall, Destroys
    <3>5. calls[i - 1].sec = s
      <4>1. calls[i - 1].sec \in Section
        BY <3>3, ElementOfSeq, FrameFacts DEF FinInv, CallsOK, CallFrame
      <4> QED BY <3>1, <3>2, <3>4, <4>1, TreeAssumption DEF InSectionCall, Destroys
    <3> QED BY <2>1, <3>3, <3>5 DEF FinInv, LiveOK
  <2> QED BY <2>3, <2>4
<1> QED BY <1>1, <1>2 DEF OwnerLast

LEMMA FinInvHolds ==
  ASSUME NoVectorInElement
  PROVE  FinSpec => []FinInv
<1>1. FinInit => FinInv
  BY FinInvInit
<1>2. FinInv /\ [FinNext]_fvars => FinInv'
  BY FinInvNext
<1> QED BY <1>1, <1>2, PTL DEF FinSpec

(* scapar_finalize gives no block to free() twice, however deep sections   *)
(* are nested and whatever the elements of a vector share; called again,   *)
(* nothing but the file and the ending mark.                               *)
THEOREM FinalizerFreesOnce ==
  ASSUME NoVectorInElement
  PROVE  FinSpec => []FreedOnce
<1>1. FinInv => FreedOnce
  BY DEF FinInv
<1> QED BY <1>1, FinInvHolds, PTL

(* scapar_sec_finalize follows no section descriptor after it was freed,   *)
(* neither when it is called nor when a call within it returns.            *)
THEOREM FinalizerNeverDangles ==
  ASSUME NoVectorInElement
  PROVE  FinSpec => []NoDangling
<1>1. FinInv => NoDangling
  BY FinInvNoDangling
<1> QED BY <1>1, FinInvHolds, PTL

(* A descriptor is freed after its item array, and an item array after the *)
(* keys in it and the sections they own: all of them stay reachable.       *)
THEOREM FinalizerFreesOwnersLast ==
  ASSUME NoVectorInElement
  PROVE  FinSpec => []OwnerLast
<1>1. FinInv => OwnerLast
  BY FinInvOwnerLast
<1> QED BY <1>1, FinInvHolds, PTL

-----------------------------------------------------------------------------
(* What is left at the end *)

(* A part of a path *)
LEMMA PartFacts ==
  ASSUME NEW o \in Path, NEW p \in Path, NEW l, NEW n, Below_(o, p, l, n)
  PROVE  /\ Len(p) \in Nat /\ Len(o) \in Nat /\ Len(p) + 1 \in 1..Len(o)
         /\ Len(p) + 1 \in DOMAIN o /\ SubSeq(o, 1, Len(p)) = p
         /\ l \in Kw /\ n \in Nat /\ o[Len(p) + 1] = <<l, n>>
<1>1. PICK m : m = Len(p)
  OBVIOUS
<1>2. /\ m \in Nat /\ Len(o) \in Nat /\ m + 1 \in 1..Len(o) /\ m + 1 \in DOMAIN o
      /\ o \in Seq(Kw \X Nat) /\ p \in Seq(Kw \X Nat)
      /\ o[m + 1] = <<l, n>> /\ \A j \in 1..m : o[j] = p[j]
  BY <1>1 DEF Below_, Path
<1>3. <<l, n>> \in Kw \X Nat
  BY <1>2, ElementOfSeq
<1>4. PICK q : q = SubSeq(o, 1, m)
  OBVIOUS
<1>5. q \in Seq(Kw \X Nat) /\ Len(q) = m /\ \A j \in 1..m : q[j] = o[j]
  BY <1>2, <1>4
<1>6. \A j \in 1..m : q[j] = p[j]
  BY <1>2, <1>5
<1>7. q = p
  BY <1>1, <1>2, <1>5, <1>6, SeqEqual
<1> QED BY <1>1, <1>2, <1>3, <1>4, <1>7

(* A path that leads somewhere beyond p goes on from where p leads to.     *)
LEMMA LeadsThrough ==
  ASSUME NEW p \in Path, NEW s \in Section, Leads(p, s),
         NEW o \in Path, NEW t \in Section, Leads(o, t), NEW l, NEW n, Below_(o, p, l, n)
  PROVE  /\ l \in DOMAIN Schema[s] /\ Schema[s][l].type \in {"SEC", "VSEC"}
         /\ Schema[s][l].type = "SEC" <=> n = 0
         /\ Leads(Append(p, <<l, n>>), Schema[s][l].child)
<1>1. PICK m : m = Len(p)
  OBVIOUS
<1>2. /\ m \in Nat /\ Len(o) \in Nat /\ m + 1 \in 1..Len(o) /\ l \in Kw /\ n \in Nat
      /\ o[m + 1] = <<l, n>> /\ \A j \in 1..m : o[j] = p[j]
  BY <1>1, PartFacts DEF Below_
<1>3. PICK f \in [0..Len(o) -> Section] :
         /\ f[0] = Top /\ f[Len(o)] = t
         /\ \A j \in 1..Len(o) :
              /\ Owns(f[j - 1], o[j][1], f[j])
              /\ Schema[f[j - 1]][o[j][1]].type = "SEC" <=> o[j][2] = 0
  BY DEF Leads
<1>4. f[m] \in Section /\ f[m + 1] \in Section /\ (m + 1) - 1 = m
  BY <1>2, <1>3
<1>5. Leads(p, f[m])
  <2> DEFINE g == [j \in 0..m |-> f[j]]
  <2>1. g \in [0..m -> Section] /\ g[0] = Top /\ g[m] = f[m]
    BY <1>2, <1>3, SMTT(30)
  <2>2. ASSUME NEW j \in 1..m
        PROVE  /\ Owns(g[j - 1], p[j][1], g[j])
               /\ Schema[g[j - 1]][p[j][1]].type = "SEC" <=> p[j][2] = 0
    <3>1. j \in 1..Len(o) /\ j \in 0..m /\ j - 1 \in 0..m /\ o[j] = p[j]
      BY <1>2
    <3>2. g[j] = f[j] /\ g[j - 1] = f[j - 1]
      BY <3>1
    <3> HIDE DEF g
    <3> QED BY <1>3, <3>1, <3>2
  <2> HIDE DEF g
  <2> QED BY <1>1, <2>1, <2>2 DEF Leads
<1>6. f[m] = s
  BY <1>4, <1>5, LeadsOnce
<1>7. Owns(s, l, f[m + 1]) /\ (Schema[s][l].type = "SEC" <=> n = 0)
  <2>1. o[m + 1][1] = l /\ o[m + 1][2] = n
    BY <1>2
  <2> QED BY <1>2, <1>3, <1>4, <1>6, <2>1
<1>8. /\ l \in DOMAIN Schema[s] /\ Schema[s][l].type \in {"SEC", "VSEC"}
      /\ Schema[s][l].child = f[m + 1]
  BY <1>7 DEF Owns
<1>9. Leads(Append(p, <<l, n>>), f[m + 1])
  BY <1>2, <1>4, <1>7, LeadsAppend
<1> QED BY <1>7, <1>8, <1>9

(* What is below p is at, or below, the next object on the way.            *)
LEMMA BelowSplit ==
  ASSUME NEW p \in Path, NEW o \in Path, NEW l \in Kw, NEW n \in Nat, Below_(o, p, l, n)
  PROVE  \/ o = Append(p, <<l, n>>)
         \/ \E k \in Kw, r \in Nat : Below_(o, Append(p, <<l, n>>), k, r)
<1>1. PICK q : q = Append(p, <<l, n>>)
  OBVIOUS
<1>2. /\ q \in Path /\ Len(q) = Len(p) + 1 /\ q[Len(p) + 1] = <<l, n>>
      /\ \A j \in 1..Len(p) : q[j] = p[j] /\ Len(p) \in Nat
  BY <1>1, PathAppend DEF Path
<1>3. /\ o \in Seq(Kw \X Nat) /\ q \in Seq(Kw \X Nat) /\ Len(q) \in Nat /\ Len(o) \in Nat
      /\ Len(p) \in Nat /\ Len(p) < Len(o) /\ o[Len(p) + 1] = <<l, n>>
      /\ \A j \in 1..Len(p) : o[j] = p[j]
  BY <1>2, PartFacts DEF Path, Below_
<1>4. \A j \in 1..Len(q) : o[j] = q[j]
  <2> TAKE j \in 1..Len(q)
  <2>1. j \in 1..Len(p) \/ j = Len(p) + 1
    BY <1>2, <1>3
  <2> QED BY <1>2, <1>3, <2>1
<1>5. CASE Len(o) = Len(q)
  <2>1. o = q
    BY <1>3, <1>4, <1>5, SeqEqual
  <2> QED BY <1>1, <2>1
<1>6. CASE Len(o) # Len(q)
  <2>1. Len(q) < Len(o) /\ Len(q) + 1 \in 1..Len(o)
    BY <1>2, <1>3, <1>6
  <2>2. o[Len(q) + 1] \in Kw \X Nat
    BY <1>3, <2>1, ElementOfSeq
  <2>3. PICK k \in Kw, r \in Nat : o[Len(q) + 1] = <<k, r>>
    BY <2>2
  <2>4. Below_(o, q, k, r)
    BY <1>4, <2>1, <2>3 DEF Below_
  <2> QED BY <1>1, <2>4
<1> QED BY <1>5, <1>6

(* Every object but the program's variables is below these.                *)
LEMMA BelowTop ==
  ASSUME NEW o \in Path, o # <<>>
  PROVE  \E l \in Kw, n \in Nat : Below_(o, <<>>, l, n)
<1>1. o \in Seq(Kw \X Nat) /\ Len(o) \in Nat /\ 1 \in 1..Len(o) /\ Len(<<>>) = 0
  BY DEF Path
<1>2. o[1] \in Kw \X Nat
  BY <1>1, ElementOfSeq
<1>3. PICK l \in Kw, n \in Nat : o[1] = <<l, n>>
  BY <1>2
<1>4. Len(<<>>) < Len(o) /\ o[Len(<<>>) + 1] = <<l, n>> /\ \A j \in 1..Len(<<>>) : FALSE
  BY <1>1, <1>3
<1>5. Below_(o, <<>>, l, n)
  BY <1>4 DEF Below_
<1> QED BY <1>5

ParsedOK == ParserInv /\ VectorsOK

(* The content of a keyword is what its type says; a string that is not    *)
(* marked is in an element.                                                *)
LEMMA ContentFacts ==
  ASSUME ParsedOK, NEW b \in Contents
  PROVE  \E o \in Touched \cap Path, s \in Section : \E k \in DOMAIN Schema[s] :
           /\ Leads(o, s) /\ Schema[s][k].type # "SEC" /\ b = Holding(s, o, k)
           /\ b[1] = "string" => k \in marks[s] \/ InElement(o)
<1>1. /\ \A e \in data : e \in Entry /\ EntryOK(e) /\ e.obj \in Touched /\ e.obj \in Path
      /\ \A v \in inited : v[1] \in Touched /\ v[1] \in Path
  BY DEF ParsedOK, ParserInv, FrameInv, TypeOK, OnceOK, Touched, Entry
<1>2. ASSUME NEW e \in data, e.type # "ROW"
      PROVE  \E s \in Section : /\ Leads(e.obj, s) /\ e.kw \in DOMAIN Schema[s]
                                /\ Schema[s][e.kw].type = e.type
  BY <1>1, <1>2 DEF EntryOK
<1>3. CASE b \in {Str_(e.obj, e.kw) : e \in {d \in Stored("SCALAR") : d.kw \in Str}}
  <2>1. PICK e \in data : e.type = "SCALAR" /\ b = Str_(e.obj, e.kw)
    BY <1>3 DEF Stored
  <2>2. PICK s \in Section : /\ Leads(e.obj, s) /\ e.kw \in DOMAIN Schema[s]
                             /\ Schema[s][e.kw].type = "SCALAR"
    BY <1>2, <2>1
  <2>3. b = Holding(s, e.obj, e.kw)
    BY <2>1, <2>2 DEF Holding, KindOf, Str_
  <2>4. e.kw \in marks[s] \/ InElement(e.obj)
    <3>1. CASE s \in ElementSection
      <4>1. PICK u \in Section, l \in Kw : Owns(u, l, s) /\ Schema[u][l].type = "VSEC"
        BY <3>1 DEF ElementSection
      <4>2. e.obj # <<>>
        <5>1. Leads(<<>>, s) => s = Top
          BY LeadsEmpty
        <5> QED BY <2>2, <4>1, <5>1, TreeAssumption
      <4>3. e.obj \in Path /\ Len(e.obj) > 0
        <5>1. e.obj \in Seq(Kw \X Nat) /\ e.obj \in Path
          BY <1>1 DEF Path
        <5> QED BY <4>2, <5>1
      <4>4. PICK p \in Path, k \in Kw, n \in Nat :
              e.obj = Append(p, <<k, n>>) /\ Len(p) = Len(e.obj) - 1
        BY <4>3, PathSplit
      <4>5. PICK t \in Section : /\ Leads(p, t) /\ Owns(t, k, s)
                                 /\ Schema[t][k].type = "SEC" <=> n = 0
        BY <2>2, <4>4, LeadsAppend
      <4>6. t = u /\ k = l
        BY <4>1, <4>5, TreeAssumption
      <4>7. n # 0
        BY <4>1, <4>5, <4>6
      <4>8. Len(p) + 1 \in DOMAIN e.obj /\ e.obj[Len(p) + 1][2] > 0
        <5>1. /\ Len(e.obj) = Len(p) + 1 /\ e.obj[Len(p) + 1] = <<k, n>>
              /\ Len(p) \in Nat /\ e.obj \in Seq(Kw \X Nat)
          BY <4>3, <4>4, PathAppend DEF Path
        <5>2. Len(p) + 1 \in DOMAIN e.obj
          BY <5>1
        <5> QED BY <4>7, <5>1, <5>2
      <4> QED BY <4>8 DEF InElement
    <3>2. CASE s \notin ElementSection
      <4>1. <<e.obj, e.kw>> \in SingleGiven
        BY <2>1 DEF SingleGiven, Single
      <4>2. MarkedIfGiven(SingleGiven \cup inited)
        BY DEF ParsedOK, ParserInv, OnceOK
      <4>3. <<e.obj, e.kw>>[1] = e.obj /\ <<e.obj, e.kw>>[2] = e.kw
        OBVIOUS
      <4> QED BY <2>2, <3>2, <4>1, <4>2, <4>3 DEF MarkedIfGiven
    <3> QED BY <3>1, <3>2
  <2> QED BY <1>1, <2>2, <2>3, <2>4
<1>4. CASE b \in {Vec(v[1], v[2]) : v \in inited}
  <2>1. PICK v \in inited : b = Vec(v[1], v[2])
    BY <1>4
  <2>2. PICK s \in Section : /\ Leads(v[1], s) /\ v[2] \in DOMAIN Schema[s]
                             /\ Schema[s][v[2]].type \in {"VEC", "VVEC"} \cup OpensElement
    BY DEF ParsedOK, VectorsOK
  <2>3. b = Holding(s, v[1], v[2]) /\ b[1] # "string"
    BY <2>1, <2>2 DEF Holding, KindOf, Vec, OpensElement
  <2> QED BY <1>1, <2>2, <2>3 DEF OpensElement
<1>5. CASE b \in {Table_(e.obj, e.kw) : e \in Stored("TABLE")}
  <2>1. PICK e \in data : e.type = "TABLE" /\ b = Table_(e.obj, e.kw)
    BY <1>5 DEF Stored
  <2>2. PICK s \in Section : /\ Leads(e.obj, s) /\ e.kw \in DOMAIN Schema[s]
                             /\ Schema[s][e.kw].type = "TABLE"
    BY <1>2, <2>1
  <2>3. b = Holding(s, e.obj, e.kw) /\ b[1] # "string"
    BY <2>1, <2>2 DEF Holding, KindOf, Table_
  <2> QED BY <1>1, <2>2, <2>3
<1>6. CASE b \in {UserData(e.obj, e.kw) : e \in Stored("USER")}
  <2>1. PICK e \in data : e.type = "USER" /\ b = UserData(e.obj, e.kw)
    BY <1>6 DEF Stored
  <2>2. PICK s \in Section : /\ Leads(e.obj, s) /\ e.kw \in DOMAIN Schema[s]
                             /\ Schema[s][e.kw].type = "USER"
    BY <1>2, <2>1
  <2>3. b = Holding(s, e.obj, e.kw) /\ b[1] # "string"
    BY <2>1, <2>2 DEF Holding, KindOf, UserData
  <2> QED BY <1>1, <2>2, <2>3
<1> QED BY <1>3, <1>4, <1>5, <1>6 DEF Contents

(* An object that something is known of is in an element that its vector   *)
(* has, once the parser has returned.                                      *)
LEMMA ElementThere ==
  ASSUME ParsedOK, stack = <<>>, NEW o \in Touched \cap Path, NEW t \in Section, Leads(o, t),
         NEW p \in Path, NEW s \in Section, Leads(p, s), NEW l, NEW n, Below_(o, p, l, n),
         Schema[s][l].type = "VSEC"
  PROVE  n \in 1..Cardinality(Entries(p, l)) /\ Vec(p, l) \in Contents
<1>1. /\ Len(p) + 1 \in DOMAIN o /\ SubSeq(o, 1, (Len(p) + 1) - 1) = p
      /\ o[Len(p) + 1][1] = l /\ o[Len(p) + 1][2] = n /\ n \in Nat
      /\ l \in Kw
  <2>1. Len(p) \in Nat /\ (Len(p) + 1) - 1 = Len(p)
    BY PartFacts
  <2> QED BY <2>1, PartFacts
<1>2. n # 0
  BY LeadsThrough
<1>3. Built(o, Len(p) + 1)
  BY <1>1 DEF ParsedOK, ParserInv, ReachOK
<1>4. n \in 0..Cardinality(Entries(p, l))
  <2>1. DOMAIN stack = {}
    OBVIOUS
  <2> QED BY <1>1, <1>3, <2>1 DEF Built
<1>5. IsFiniteSet(Entries(p, l)) /\ Cardinality(Entries(p, l)) \in Nat
  BY EntriesFinite DEF ParsedOK, ParserInv, FrameInv
<1>6. n \in 1..Cardinality(Entries(p, l))
  BY <1>2, <1>4, <1>5
<1>7. Entries(p, l) # {}
  BY <1>5, <1>6, FS_EmptySet
<1>8. PICK e \in data : e.obj = p /\ e.kw = l
  BY <1>7 DEF Entries
<1>9. EntryOK(e) /\ e \in Entry
  BY DEF ParsedOK, ParserInv, FrameInv, TypeOK, OnceOK
<1>10. e.type = "VSEC"
  <2>1. CASE e.type = "ROW"
    <3>1. PICK u \in Section : \E q \in Path, r \in Nat :
            /\ Leads(q, u) /\ p = Append(q, <<l, r>>)
            /\ l \in DOMAIN Schema[u] /\ Schema[u][l].type \in {"TABLE", "VTAB"}
      BY <1>8, <1>9, <2>1 DEF EntryOK
    <3>2. PICK q \in Path, r \in Nat :
            /\ Leads(q, u) /\ p = Append(q, <<l, r>>)
            /\ l \in DOMAIN Schema[u] /\ Schema[u][l].type \in {"TABLE", "VTAB"}
      BY <3>1
    <3>3. PICK w \in Section : Leads(q, w) /\ Owns(w, l, s)
      BY <1>1, <3>2, LeadsAppend
    <3>4. w = u
      BY <3>2, <3>3, LeadsOnce
    <3> QED BY <3>2, <3>3, <3>4 DEF Owns
  <2>2. CASE e.type # "ROW"
    <3>1. PICK u \in Section : /\ Leads(p, u) /\ Schema[u][l].type = e.type
      BY <1>8, <1>9, <2>2 DEF EntryOK
    <3>2. u = s
      BY <3>1, LeadsOnce
    <3> QED BY <3>1, <3>2
  <2> QED BY <2>1, <2>2
<1>11. <<p, l>> \in inited
  BY <1>8, <1>10 DEF ParsedOK, VectorsOK, OpensElement
<1>12. Vec(p, l) \in Contents
  <2>1. <<p, l>>[1] = p /\ <<p, l>>[2] = l
    OBVIOUS
  <2>2. Vec(p, l) \in {Vec(v[1], v[2]) : v \in inited}
    BY <1>11, <2>1
  <2> QED BY <2>2 DEF Contents
<1> QED BY <1>6, <1>12

-----------------------------------------------------------------------------
(* What the calls in progress have yet to reach *)

(* Call i still comes to keyword k of object o: o is the object of the      *)
(* call, or in an element or section that is not yet done.                 *)
InReach(i, o, k) ==
  /\ Visits(i)
  /\ \/ o = calls[i].base.obj /\ k \in ToVisit(calls[i])
     \/ \E l \in ToVisit(calls[i]), n \in Nat :
          /\ Below_(o, calls[i].base.obj, l, n)
          /\ ~VectorGone(i, l) /\ ~VisitedElement(i, l, n)
Coming(o, k) == \E i \in 1..Len(calls) : InReach(i, o, k)

(* A string that may stay *)
Excused(s, o, k) == KindOf(s, k) = "string" /\ InElement(o) /\ k \in DOMAIN Schema[s] \ marks[s]

(* A call works in an object of its section. *)
BasesLead == \A i \in 1..Len(calls) : Visits(i) => Leads(calls[i].base.obj, calls[i].sec)

(* Every content block has been freed, or may stay, or is within reach of  *)
(* a call in progress.                                                     *)
RestOK ==
  phase # "program" =>
    /\ stack = <<>> /\ Closed \subseteq freed
    /\ phase \in {"finalize", "done"} =>
         \A o \in Touched \cap Path, s \in Section : \A k \in DOMAIN Schema[s] :
           Leads(o, s) /\ Holding(s, o, k) \in Contents =>
             \/ Holding(s, o, k) \in freed \/ Excused(s, o, k) \/ Coming(o, k)

LEMMA ContentType ==
  ASSUME ParsedOK, NEW o \in Path, NEW s \in Section, NEW k, Leads(o, s), Holding(s, o, k) \in Contents
  PROVE  /\ Schema[s][k].type # "SEC"
         /\ KindOf(s, k) = "string" => k \in marks[s] \/ InElement(o)
<1>1. PICK p \in Touched \cap Path, t \in Section : \E l \in DOMAIN Schema[t] :
        /\ Leads(p, t) /\ Schema[t][l].type # "SEC" /\ Holding(s, o, k) = Holding(t, p, l)
        /\ Holding(s, o, k)[1] = "string" => l \in marks[t] \/ InElement(p)
  BY ContentFacts
<1>2. PICK l \in DOMAIN Schema[t] :
        /\ Leads(p, t) /\ Schema[t][l].type # "SEC" /\ Holding(s, o, k) = Holding(t, p, l)
        /\ Holding(s, o, k)[1] = "string" => l \in marks[t] \/ InElement(p)
  BY <1>1
<1>3. p = o /\ l = k /\ Holding(s, o, k)[1] = KindOf(s, k)
  BY <1>2 DEF Holding
<1>4. t = s
  BY <1>2, <1>3, LeadsOnce
<1> QED BY <1>2, <1>3, <1>4

(* What a caller has yet to reach stays so. *)
LEMMA ReachStays ==
  ASSUME FinInv, FinInv', NEW n, NEW m, StackStep(n, m), NEW i \in 1..(n - 1),
         NEW o, NEW k, InReach(i, o, k),
         i + 1 = n => calls[n].call = "sec",
         m = n - 1 => \A p, l : Vec(p, l) \in freed' => Vec(p, l) \in freed
  PROVE  i \in 1..m /\ InReach(i, o, k)'
<1>1. /\ n \in Nat \ {0} /\ n = Len(calls) /\ m \in {n - 1, n, n + 1} /\ m = Len(calls')
      /\ i \in 1..m /\ i \in 1..n /\ calls'[i] = calls[i]
  BY DoingFacts DEF StackStep, FinInv
<1>2. Visits(i)
  BY DEF InReach
<1>3. Visits(i)'
  BY <1>1, <1>2 DEF Visits
<1>4. ASSUME NEW l \in ToVisit(calls[i]), VectorGone(i, l)', ~VectorGone(i, l)
      PROVE  FALSE
  <2>1. Vec(calls[i].base.obj, l) \in freed'
    BY <1>1, <1>4 DEF VectorGone
  <2>2. CASE i = m
    BY <1>1, <1>4, <2>1, <2>2 DEF VectorGone
  <2>3. CASE i # m
    <3>1. Ahead(i)'
      BY <1>1, <1>3 DEF FinInv, ContentsOK
    <3>2. Spent(calls[i].base.obj, l)'
      BY <1>1, <2>1 DEF Spent, SpentIn, OwnContent
    <3>3. l \in ToVisit(calls'[i])
      BY <1>1
    <3> QED BY <1>1, <2>3, <3>1, <3>2, <3>3 DEF Ahead
  <2> QED BY <2>2, <2>3
<1>5. ASSUME NEW l, NEW r \in Nat, VisitedElement(i, l, r)', ~VisitedElement(i, l, r)
      PROVE  FALSE
  <2>1. /\ l = Head(calls[i].todo) /\ Schema[calls[i].sec][l].type = "VSEC"
        /\ i < m /\ calls'[i + 1].call = "vec" /\ r < calls'[i + 1].next
    BY <1>1, <1>5 DEF VisitedElement
  <2>2. CASE i + 1 = n
    <3>1. m >= n
      BY <1>1, <2>1, <2>2
    <3>2. calls'[n].call = calls[n].call
      BY <3>1 DEF StackStep, SameCall
    <3> QED BY <2>1, <2>2, <3>2
  <2>3. CASE i + 1 # n
    <3>1. i + 1 \in 1..(n - 1) /\ i < n
      BY <1>1, <2>3
    <3>2. calls'[i + 1] = calls[i + 1]
      BY <3>1 DEF StackStep
    <3> QED BY <1>1, <1>5, <2>1, <3>1, <3>2 DEF VisitedElement
  <2> QED BY <2>2, <2>3
<1>6. CASE o = calls[i].base.obj /\ k \in ToVisit(calls[i])
  BY <1>1, <1>3, <1>6 DEF InReach
<1>7. ASSUME NEW l \in ToVisit(calls[i]), NEW r \in Nat, Below_(o, calls[i].base.obj, l, r),
             ~VectorGone(i, l), ~VisitedElement(i, l, r)
      PROVE  InReach(i, o, k)'
  <2>1. ~VectorGone(i, l)' /\ ~VisitedElement(i, l, r)'
    BY <1>4, <1>5, <1>7
  <2>2. l \in ToVisit(calls'[i]) /\ Below_(o, calls'[i].base.obj, l, r)
    BY <1>1, <1>7
  <2> QED BY <1>3, <2>1, <2>2 DEF InReach
<1> QED BY <1>1, <1>6, <1>7 DEF InReach

(* A new call reaches all there is at its base and below.                  *)
LEMMA ReachArrives ==
  ASSUME NEW m, m = Len(calls'), NEW p \in Path, NEW c \in Section, Leads(p, c),
         calls'[m].call = "sec", calls'[m].base = Own(p),
         ToVisit(calls'[m]) = DOMAIN Schema[c], \A l \in Kw : Vec(p, l) \notin freed',
         NEW o \in Path, NEW s \in Section, NEW k \in DOMAIN Schema[s], Leads(o, s),
         o = p \/ \E l \in Kw, r \in Nat : Below_(o, p, l, r), m \in Nat
  PROVE  InReach(m, o, k)'
<1>1. Visits(m)' /\ calls'[m].base.obj = p
  BY DEF Visits, Own
<1>2. CASE o = p
  <2>1. s = c
    BY <1>2, LeadsOnce
  <2> QED BY <1>1, <1>2, <2>1 DEF InReach
<1>3. ASSUME NEW l \in Kw, NEW r \in Nat, Below_(o, p, l, r)
      PROVE  InReach(m, o, k)'
  <2>1. l \in DOMAIN Schema[c]
    BY <1>3, LeadsThrough
  <2>2. ~VectorGone(m, l)' /\ ~VisitedElement(m, l, r)'
    BY <1>1 DEF VectorGone, VisitedElement
  <2> QED BY <1>1, <1>3, <2>1, <2>2 DEF InReach
<1> QED BY <1>2, <1>3

(* The innermost call has an item less to visit.                           *)
LEMMA ReachAdvances ==
  ASSUME FinInv, NoVectorInElement, NEW k0, Visit(k0), NEW n, n = Len(calls), NEW m, m = Len(calls'),
         m = n \/ (m = n + 1 /\ calls'[m].call = "sec"), calls'[n] = Advanced(Doing),
         \A l : Vec(Doing.base.obj, l) \in freed' => l = k0 \/ Vec(Doing.base.obj, l) \in freed,
         NEW o, NEW k, InReach(n, o, k)
  PROVE  \/ InReach(n, o, k)'
         \/ o = Doing.base.obj /\ k = k0
         \/ \E r \in Nat : Below_(o, Doing.base.obj, k0, r) /\ ~VectorGone(n, k0)
<1>1. /\ calls # <<>> /\ n \in Nat \ {0} /\ Doing = calls[n] /\ Doing \in SecFrame
      /\ Doing.todo # <<>> /\ Distinct(Doing.todo) /\ k0 = Head(Doing.todo)
  BY VisitFacts
<1>2. /\ ToVisit(calls'[n]) = ToVisit(Doing) \ {k0} /\ calls'[n].base = Doing.base
      /\ calls'[n].call = Doing.call
  BY <1>1, AdvanceFacts
<1>3. Visits(n) /\ Visits(n)'
  BY <1>1, <1>2 DEF InReach, Visits
<1>4. CASE o = Doing.base.obj /\ k \in ToVisit(Doing)
  BY <1>2, <1>3, <1>4 DEF InReach
<1>5. ASSUME NEW l \in ToVisit(Doing), NEW r \in Nat, Below_(o, Doing.base.obj, l, r), ~VectorGone(n, l),
             l # k0
      PROVE  InReach(n, o, k)'
  <2>1. ~SpentIn(freed, Doing.base.obj, l)
    BY <1>1, <1>3, <1>5, TopAhead
  <2>2. Vec(Doing.base.obj, l) \notin freed
    BY <2>1 DEF SpentIn, OwnContent
  <2>3. ~VectorGone(n, l)'
    BY <1>2, <1>5, <2>2 DEF VectorGone
  <2>4. ~VisitedElement(n, l, r)'
    BY <1>1 DEF VisitedElement
  <2>5. l \in ToVisit(calls'[n]) /\ Below_(o, calls'[n].base.obj, l, r)
    BY <1>2, <1>5
  <2> QED BY <1>3, <2>3, <2>4, <2>5 DEF InReach
<1> QED BY <1>1, <1>4, <1>5 DEF InReach

(* Nothing drops out of reach but what is freed, and strings that may stay. *)
Keeps ==
  \A o \in Touched \cap Path, s \in Section : \A k \in DOMAIN Schema[s] :
    Leads(o, s) /\ Holding(s, o, k) \in Contents /\ Coming(o, k) =>
      \/ Holding(s, o, k) \in freed' \/ Excused(s, o, k) \/ Coming(o, k)'

LEMMA BasesStay ==
  ASSUME FinInv, BasesLead, NEW n, NEW m, StackStep(n, m),
         m = n + 1 => (Visits(m)' => Leads(calls'[m].base.obj, calls'[m].sec))
  PROVE  BasesLead'
<1>1. /\ n \in Nat \ {0} /\ n = Len(calls) /\ m \in {n - 1, n, n + 1} /\ m = Len(calls')
      /\ \A i \in 1..(n - 1) : i \in 1..n /\ calls'[i] = calls[i]
      /\ \A i \in 1..m : i \in 1..(n - 1) \/ (i = n /\ m >= n) \/ (i = m /\ m = n + 1)
  <2>1. /\ n \in Nat \ {0} /\ n = Len(calls) /\ m \in {n - 1, n, n + 1} /\ m = Len(calls')
        /\ \A i \in 1..(n - 1) : i \in 1..n /\ calls'[i] = calls[i]
    BY DoingFacts DEF StackStep, FinInv
  <2> QED BY <2>1
<1>2. ASSUME NEW i \in 1..m, Visits(i)'
      PROVE  Leads(calls'[i].base.obj, calls'[i].sec)
  <2>1. CASE i \in 1..(n - 1)
    BY <1>1, <1>2, <2>1 DEF BasesLead, Visits
  <2>2. CASE i = n /\ m >= n
    <3>1. SameCall(calls'[n], calls[n]) /\ n \in 1..n
      BY <1>1, <2>2 DEF StackStep
    <3>2. /\ calls'[n].call = "sec" /\ ~calls'[n].base.shifted
      BY <1>2, <2>2 DEF Visits
    <3>3. calls[n].call = "sec" /\ calls'[n].base = calls[n].base /\ calls'[n].sec = calls[n].sec
      BY <3>1, <3>2 DEF SameCall
    <3>4. Visits(n)
      BY <3>2, <3>3 DEF Visits
    <3> QED BY <1>1, <2>2, <3>1, <3>3, <3>4 DEF BasesLead
  <2>3. CASE i = m /\ m = n + 1
    BY <1>2, <2>3
  <2> QED BY <1>1, <2>1, <2>2, <2>3
<1> QED BY <1>1, <1>2 DEF BasesLead

(* An item that is no section *)
LEMMA ItemEmpties ==
  ASSUME FinInv, FinInv', NoVectorInElement, ParsedOK, BasesLead, NEW k0 \in Kw, ItemStep(k0)
  PROVE  Keeps /\ BasesLead'
<1>1. PICK n : n = Len(calls)
  OBVIOUS
<1>2. PICK C : /\ C \subseteq OwnContent(Doing.base.obj, k0) \cap Contents
               /\ \/ Doing.base.shifted
                  \/ KindOf(Doing.sec, k0) = "string" /\ Unmarked(k0)
                  \/ {Holding(Doing.sec, Doing.base.obj, k0)} \cap Contents \subseteq C
               /\ Free(NameOf(k0) \cup C)
  BY DEF ItemStep
<1>3. /\ Visit(k0) /\ At(k0).type \notin {"SEC", "VSEC"} /\ calls' = ItemDone
  BY DEF ItemStep
<1>4. /\ calls # <<>> /\ n \in Nat \ {0} /\ Doing = calls[n] /\ Doing.call = "sec" /\ n \in 1..n
      /\ Doing.sec \in Section /\ Doing \in SecFrame
      /\ \A i \in 1..n : i \in 1..(n - 1) \/ i = n
  BY <1>1, <1>3, VisitFacts
<1>5. StackStep(n, n) /\ calls'[n] = Advanced(Doing) /\ n = Len(calls')
  BY <1>1, <1>3, ItemCalls DEF StackStep
<1>6. \A l : Vec(Doing.base.obj, l) \in freed' => l = k0 \/ Vec(Doing.base.obj, l) \in freed
  <2>1. ASSUME NEW l, Vec(Doing.base.obj, l) \in freed', Vec(Doing.base.obj, l) \notin freed
        PROVE  l = k0
    <3>1. Vec(Doing.base.obj, l) \in NameOf(k0) \/ Vec(Doing.base.obj, l) \in C
      BY <1>2, <2>1 DEF Free
    <3>2. Vec(Doing.base.obj, l) \notin NameOf(k0)
      BY BlocksDiffer DEF NameOf
    <3>3. Vec(Doing.base.obj, l) \in OwnContent(Doing.base.obj, k0)
      BY <1>2, <3>1, <3>2
    <3> QED BY <3>3, BlocksDiffer DEF OwnContent
  <2> QED BY <2>1
<1>7. ASSUME NEW o \in Touched \cap Path, NEW s \in Section, NEW k \in DOMAIN Schema[s],
             Leads(o, s), Holding(s, o, k) \in Contents, NEW i \in 1..n, InReach(i, o, k)
      PROVE  \/ Holding(s, o, k) \in freed' \/ Excused(s, o, k) \/ Coming(o, k)'
  <2>1. CASE i \in 1..(n - 1)
    <3>1. n # n - 1
      BY <1>4
    <3>2. i \in 1..n /\ InReach(i, o, k)'
      BY <1>4, <1>5, <1>7, <2>1, <3>1, ReachStays
    <3> QED BY <1>5, <3>2 DEF Coming
  <2>2. CASE i = n
    <3>1. Visits(n) /\ ~Doing.base.shifted /\ Leads(Doing.base.obj, Doing.sec) /\ Doing.base.obj \in Path
      BY <1>1, <1>4, <1>7, <2>2 DEF InReach, BasesLead, Visits, SecFrame
    <3>2. \/ InReach(n, o, k)'
          \/ o = Doing.base.obj /\ k = k0
          \/ \E r \in Nat : Below_(o, Doing.base.obj, k0, r)
      BY <1>1, <1>3, <1>5, <1>6, <1>7, <2>2, ReachAdvances
    <3>3. CASE InReach(n, o, k)'
      BY <1>4, <1>5, <3>3 DEF Coming
    <3>4. CASE o = Doing.base.obj /\ k = k0
      <4>1. s = Doing.sec
        BY <1>4, <1>7, <3>1, <3>4, LeadsOnce
      <4>2. CASE {Holding(Doing.sec, Doing.base.obj, k0)} \cap Contents \subseteq C
        BY <1>2, <1>7, <3>4, <4>1, <4>2 DEF Free
      <4>3. CASE KindOf(Doing.sec, k0) = "string" /\ Unmarked(k0)
        <5>1. k \notin marks[s] /\ KindOf(s, k) = "string"
          BY <3>4, <4>1, <4>3 DEF Unmarked
        <5>2. InElement(o)
          BY <1>7, <5>1, ContentType
        <5> QED BY <5>1, <5>2 DEF Excused
      <4> QED BY <1>2, <3>1, <4>2, <4>3
    <3>5. ASSUME NEW r \in Nat, Below_(o, Doing.base.obj, k0, r)
          PROVE  FALSE
      <4>1. Schema[Doing.sec][k0].type \in {"SEC", "VSEC"}
        BY <1>4, <1>7, <3>1, <3>5, LeadsThrough
      <4> QED BY <1>3, <4>1 DEF At
    <3> QED BY <3>2, <3>3, <3>4, <3>5
  <2> QED BY <1>4, <2>1, <2>2
<1>8. Keeps
  BY <1>1, <1>7 DEF Keeps, Coming
<1>9. n # n + 1
  BY <1>4
<1>10. BasesLead'
  BY <1>5, <1>9, BasesStay
<1> QED BY <1>8, <1>10

(* A section, or that of the elements of a vector that is gone *)
LEMMA DownEmpties ==
  ASSUME FinInv, FinInv', NoVectorInElement, ParsedOK, stack = <<>>, BasesLead,
         NEW k0 \in Kw, NEW c \in Section, NEW b, DownStep(k0, c, b)
  PROVE  Keeps /\ BasesLead'
<1> DEFINE g == SecCall(c, b, Doing.destroy, Doing.destroy)
<1>1. PICK n : n = Len(calls)
  OBVIOUS
<1>2. /\ Visit(k0) /\ Owns(Doing.sec, k0, c) /\ Descriptor(c) \notin freed /\ Free(NameOf(k0))
      /\ \/ At(k0).type = "SEC" /\ b = Below(k0)
         \/ At(k0).type = "VSEC" /\ ~Standing(k0) /\ b = AtVec(Doing.base.obj)
  BY DEF DownStep
<1>3. /\ calls # <<>> /\ n \in Nat \ {0} /\ Doing = calls[n] /\ Doing.call = "sec" /\ n \in 1..n
      /\ Doing.sec \in Section /\ Doing \in SecFrame /\ k0 = Head(Doing.todo)
      /\ \A i \in 1..n : i \in 1..(n - 1) \/ i = n
      /\ k0 \in ToVisit(Doing) /\ Doing.base.obj \in Path
  BY <1>1, <1>2, VisitFacts DEF SecFrame
<1>4. PICK m : m = n + 1
  OBVIOUS
<1>5. /\ StackStep(n, m) /\ calls'[n] = Advanced(Doing) /\ calls'[m] = g /\ m = Len(calls')
      /\ b \in [obj : Path, shifted : BOOLEAN] /\ n \in 1..m /\ m \in 1..m /\ m # n - 1 /\ m \in Nat
      /\ Doing.destroy \in BOOLEAN
  <2>1. m # n - 1 /\ n \in 1..m /\ m \in 1..m /\ m \in Nat
    BY <1>3, <1>4
  <2> QED BY <1>1, <1>3, <1>4, <2>1, DownCalls DEF StackStep, SecFrame
<1>6. \A p, l : Vec(p, l) \in freed' => Vec(p, l) \in freed
  BY <1>2, BlocksDiffer DEF Free, NameOf
<1>7. g.call = "sec" /\ g.base = b /\ g.sec = c /\ ToVisit(g) = DOMAIN Schema[c]
  <2>1. ItemArray(c) \notin freed
    <3>1. c # Top
      BY <1>2, <1>3, TreeAssumption
    <3> QED BY <1>2, <3>1 DEF FinInv, ArraysOK
  <2> QED BY <1>5, <2>1, SecCallFacts
<1> HIDE DEF g
<1>8. At(k0).type = "SEC" /\ ~Doing.base.shifted =>
        b = Own(Append(Doing.base.obj, <<k0, 0>>))
  <2> SUFFICES ASSUME At(k0).type = "SEC", ~Doing.base.shifted
               PROVE  b = Own(Append(Doing.base.obj, <<k0, 0>>))
    OBVIOUS
  <2>1. Doing.base \in [obj : Path, shifted : BOOLEAN]
    BY <1>3 DEF SecFrame
  <2>2. b = [Doing.base EXCEPT !.obj = Append(Doing.base.obj, <<k0, 0>>)]
    BY <1>2 DEF Below
  <2> QED BY <2>1, <2>2 DEF Own
<1>9. ASSUME NEW o \in Touched \cap Path, NEW s \in Section, NEW k \in DOMAIN Schema[s],
             Leads(o, s), Holding(s, o, k) \in Contents, NEW i \in 1..n, InReach(i, o, k)
      PROVE  \/ Holding(s, o, k) \in freed' \/ Excused(s, o, k) \/ Coming(o, k)'
  <2>1. CASE i \in 1..(n - 1)
    <3>1. i \in 1..m /\ InReach(i, o, k)'
      BY <1>3, <1>5, <1>9, <2>1, ReachStays
    <3> QED BY <1>5, <3>1 DEF Coming
  <2>2. CASE i = n
    <3>1. Visits(n) /\ ~Doing.base.shifted /\ Leads(Doing.base.obj, Doing.sec) /\ Doing.base.obj \in Path
      BY <1>1, <1>3, <1>9, <2>2 DEF InReach, BasesLead, Visits
    <3>2. \/ InReach(n, o, k)'
          \/ o = Doing.base.obj /\ k = k0
          \/ \E r \in Nat : Below_(o, Doing.base.obj, k0, r) /\ ~VectorGone(n, k0)
      BY <1>1, <1>2, <1>4, <1>5, <1>6, <1>7, <1>9, <2>2, ReachAdvances
    <3>3. CASE InReach(n, o, k)'
      BY <1>5, <3>3 DEF Coming
    <3>4. CASE o = Doing.base.obj /\ k = k0
      <4>1. s = Doing.sec
        BY <1>3, <1>9, <3>1, <3>4, LeadsOnce
      <4>2. Schema[s][k].type = "VSEC" /\ ~Standing(k0)
        BY <1>2, <1>9, <3>4, <4>1, ContentType DEF At
      <4>3. Holding(s, o, k) = Vec(o, k)
        BY <4>2 DEF Holding, KindOf, Vec
      <4>4. Holding(s, o, k) \in freed
        BY <1>9, <3>1, <3>4, <4>2, <4>3 DEF Standing
      <4> QED BY <1>2, <4>4 DEF Free
    <3>5. ASSUME NEW r \in Nat, Below_(o, Doing.base.obj, k0, r), ~VectorGone(n, k0)
          PROVE  InReach(m, o, k)'
      <4>1. CASE At(k0).type = "VSEC"
        <5>1. Vec(Doing.base.obj, k0) \in Contents
          BY <1>3, <1>9, <3>1, <3>5, <4>1, ElementThere DEF At
        <5>2. Vec(Doing.base.obj, k0) \in freed
          BY <1>2, <3>1, <4>1, <5>1 DEF Standing
        <5> QED BY <1>3, <3>5, <4>1, <5>2 DEF VectorGone, At
      <4>2. CASE At(k0).type = "SEC"
        <5>1. PICK p \in Path : p = Append(Doing.base.obj, <<k0, 0>>)
          BY <1>3, PathAppend
        <5>2. r = 0 /\ Leads(p, c)
          <6>1. /\ Schema[Doing.sec][k0].type = "SEC" <=> r = 0
                /\ Leads(Append(Doing.base.obj, <<k0, r>>), Schema[Doing.sec][k0].child)
            BY <1>3, <1>9, <3>1, <3>5, LeadsThrough
          <6> QED BY <1>2, <4>2, <5>1, <6>1 DEF At, Owns
        <5>3. o = p \/ \E l \in Kw, q \in Nat : Below_(o, p, l, q)
          BY <3>1, <3>5, <5>1, <5>2, BelowSplit
        <5>4. \A l \in Kw : Vec(p, l) \notin freed'
          <6>1. Below_(p, Doing.base.obj, k0, 0)
            BY <3>1, <5>1, BelowAppend
          <6>2. \A q \in Path, l \in Kw, x \in Nat :
                  Below_(q, Doing.base.obj, k0, x) => ~SpentIn(freed, q, l)
            BY <1>1, <1>3, <3>1, <3>5, TopAhead
          <6>3. \A l \in Kw : ~SpentIn(freed, p, l)
            BY <5>2, <6>1, <6>2
          <6> QED BY <1>6, <6>3 DEF SpentIn, OwnContent
        <5>5. calls'[m].call = "sec" /\ calls'[m].base = Own(p) /\ ToVisit(calls'[m]) = DOMAIN Schema[c]
          BY <1>5, <1>7, <1>8, <3>1, <4>2, <5>1
        <5> QED BY <1>5, <1>9, <5>2, <5>3, <5>4, <5>5, ReachArrives
      <4> QED BY <1>2, <4>1, <4>2
    <3> QED BY <1>5, <3>2, <3>3, <3>4, <3>5 DEF Coming
  <2> QED BY <1>3, <2>1, <2>2
<1>10. Keeps
  BY <1>1, <1>9 DEF Keeps, Coming
<1>11. Visits(m)' => Leads(calls'[m].base.obj, calls'[m].sec)
  <2> SUFFICES ASSUME ~b.shifted PROVE Leads(b.obj, c)
    BY <1>5, <1>7 DEF Visits
  <2>1. At(k0).type = "SEC" /\ b = Below(k0)
    BY <1>2 DEF AtVec
  <2>2. ~Doing.base.shifted
    <3>1. Doing.base \in [obj : Path, shifted : BOOLEAN]
      BY <1>3 DEF SecFrame
    <3>2. b = [Doing.base EXCEPT !.obj = Append(Doing.base.obj, <<k0, 0>>)]
      BY <2>1 DEF Below
    <3> QED BY <3>1, <3>2
  <2>3. b.obj = Append(Doing.base.obj, <<k0, 0>>)
    BY <1>8, <2>1, <2>2 DEF Own
  <2>4. Visits(n)
    BY <1>3, <2>2 DEF Visits
  <2>5. Leads(Doing.base.obj, Doing.sec)
    BY <1>1, <1>3, <2>4 DEF BasesLead
  <2>6. Schema[Doing.sec][k0].type = "SEC"
    BY <2>1 DEF At
  <2> QED BY <1>2, <1>3, <2>3, <2>5, <2>6, LeadsAppend
<1>12. BasesLead'
  BY <1>5, <1>11, BasesStay
<1> QED BY <1>10, <1>12

(* The elements of a vector are about to be visited, *)
LEMMA VectorEmpties ==
  ASSUME FinInv, FinInv', NoVectorInElement, ParsedOK, stack = <<>>, BasesLead,
         NEW k0 \in Kw, VectorStep(k0)
  PROVE  Keeps /\ BasesLead'
<1> DEFINE g == VecCall(At(k0).child, Doing.base.obj, k0)
<1>1. PICK n : n = Len(calls)
  OBVIOUS
<1>2. Visit(k0) /\ freed' = freed
  BY DEF VectorStep
<1>3. /\ calls # <<>> /\ n \in Nat \ {0} /\ Doing = calls[n] /\ Doing.call = "sec" /\ n \in 1..n
      /\ Doing.sec \in Section /\ Doing \in SecFrame /\ k0 = Head(Doing.todo)
      /\ \A i \in 1..n : i \in 1..(n - 1) \/ i = n
      /\ Doing.base.obj \in Path
  BY <1>1, <1>2, VisitFacts DEF SecFrame
<1>4. PICK m : m = n + 1
  OBVIOUS
<1>5. /\ StackStep(n, m) /\ calls'[n] = Doing /\ calls'[m] = g /\ m = Len(calls')
      /\ g.next = 1 /\ Schema[Doing.sec][k0].type = "VSEC"
      /\ n \in 1..m /\ m # n - 1 /\ g.call = "vec" /\ n < m
  <2>1. m # n - 1 /\ n \in 1..m /\ n < m
    BY <1>3, <1>4
  <2>2. g.call = "vec"
    BY DEF VecCall
  <2> QED BY <1>1, <1>4, <2>1, <2>2, VectorCalls DEF StackStep
<1> HIDE DEF g
<1>6. ASSUME NEW o \in Touched \cap Path, NEW s \in Section, NEW k \in DOMAIN Schema[s],
             Leads(o, s), Holding(s, o, k) \in Contents, NEW i \in 1..n, InReach(i, o, k)
      PROVE  i \in 1..m /\ InReach(i, o, k)'
  <2>1. CASE i \in 1..(n - 1)
    BY <1>3, <1>5, <1>6, <2>1, ReachStays
  <2>2. CASE i = n
    <3>1. Visits(n) /\ Leads(Doing.base.obj, Doing.sec) /\ Visits(n)'
      BY <1>1, <1>3, <1>5, <1>6, <2>2 DEF InReach, BasesLead, Visits
    <3>2. CASE o = Doing.base.obj /\ k \in ToVisit(Doing)
      BY <1>5, <2>2, <3>1, <3>2 DEF InReach
    <3>3. ASSUME NEW l \in ToVisit(Doing), NEW r \in Nat, Below_(o, Doing.base.obj, l, r),
                 ~VectorGone(n, l)
          PROVE  InReach(n, o, k)'
      <4>1. ~VectorGone(n, l)'
        BY <1>2, <1>3, <1>5, <3>3 DEF VectorGone
      <4>2. ~VisitedElement(n, l, r)'
        <5> SUFFICES ASSUME VisitedElement(n, l, r)' PROVE FALSE
          OBVIOUS
        <5>1. Schema[Doing.sec][l].type = "VSEC" /\ r < 1
          BY <1>4, <1>5 DEF VisitedElement
        <5>2. r # 0
          <6>1. Schema[Doing.sec][l].type = "SEC" <=> r = 0
            <7>1. PICK p \in Path, c \in Section : p = Doing.base.obj /\ c = Doing.sec
              BY <1>3
            <7>2. Leads(p, c) /\ Below_(o, p, l, r) /\ Leads(o, s) /\ o \in Path
              BY <1>6, <3>1, <3>3, <7>1
            <7>3. Schema[c][l].type = "SEC" <=> r = 0
              BY ONLY <7>2, LeadsThrough
            <7> QED BY <7>1, <7>3
          <6> QED BY <5>1, <6>1
        <5> QED BY <5>1, <5>2
      <4> QED BY <1>5, <3>1, <3>3, <4>1, <4>2 DEF InReach
    <3> QED BY <1>3, <1>5, <1>6, <2>2, <3>2, <3>3 DEF InReach
  <2> QED BY <1>3, <2>1, <2>2
<1>7. Keeps
  BY <1>1, <1>5, <1>6 DEF Keeps, Coming
<1>8. ~Visits(m)'
  BY <1>5 DEF Visits
<1>9. BasesLead'
  BY <1>5, <1>8, BasesStay
<1> QED BY <1>7, <1>9

(* one more is visited, *)
LEMMA ElementEmpties ==
  ASSUME FinInv, FinInv', NoVectorInElement, ParsedOK, BasesLead, ElementStep
  PROVE  Keeps /\ BasesLead'
<1> DEFINE f == NextElementOf(Doing)
           g == SecCall(Doing.sec, ElementBase(Doing), FALSE, FALSE)
<1>1. PICK n : n = Len(calls)
  OBVIOUS
<1>2. PICK m : m = n + 1
  OBVIOUS
<1>3. /\ StackStep(n, m) /\ calls # <<>> /\ n > 1 /\ Doing.call = "vec"
      /\ Doing \in CallFrame /\ SameCall(f, Doing) /\ f.next = Doing.next + 1
      /\ calls'[n] = f /\ calls'[m] = g /\ m = Len(calls') /\ freed' = freed
  BY <1>1, <1>2, ElementCalls DEF ElementStep, Free, StackStep
<1>4. /\ n \in Nat \ {0} /\ n \in 1..n /\ Doing = calls[n] /\ CallOK(n) /\ Doing.sec \in Section
      /\ \A i \in 1..n : i \in 1..(n - 1) \/ i = n
      /\ m # n - 1 /\ m \in 1..m /\ m \in Nat /\ m > n
  <2>1. /\ n \in Nat \ {0} /\ n \in 1..n /\ Doing = calls[n] /\ CallOK(n) /\ Doing.sec \in Section
        /\ \A i \in 1..n : i \in 1..(n - 1) \/ i = n
    BY <1>1, <1>3, DoingFacts DEF FinInv
  <2> QED BY <1>2, <2>1
<1>5. PICK o0 \in Path, k0 \in Kw, x \in Nat \ {0} : o0 = Doing.obj /\ k0 = Doing.kw /\ x = Doing.next
  BY <1>3, FrameFacts
<1>6. /\ n - 1 \in 1..(n - 1) /\ (n - 1) + 1 = n /\ Visits(n - 1) /\ calls[n - 1].base.obj = o0
      /\ Head(calls[n - 1].todo) = k0 /\ k0 \in ToVisit(calls[n - 1])
      /\ Schema[calls[n - 1].sec][k0].type = "VSEC"
      /\ Vec(o0, k0) \notin freed /\ n - 1 \in 1..Len(calls)
      /\ calls'[n - 1] = calls[n - 1] /\ calls[n - 1].sec \in Section
  <2>1. n - 1 \in 1..(n - 1) /\ (n - 1) + 1 = n
    BY <1>3, <1>4
  <2>2. /\ n - 1 \in 1..Len(calls) /\ Visits(n - 1) /\ calls[n - 1].base.obj = o0
        /\ Head(calls[n - 1].todo) = k0 /\ k0 \in ToVisit(calls[n - 1])
        /\ Schema[calls[n - 1].sec][k0].type = "VSEC" /\ Vec(o0, k0) \notin freed
    BY <1>1, <1>3, <1>4, <1>5, VectorFrame
  <2>3. calls[n - 1].sec \in Section
    BY <1>1, <1>3, <2>2, DoingFacts DEF FinInv
  <2> QED BY <1>3, <2>1, <2>2, <2>3 DEF StackStep
<1>7. /\ Owns(calls[n - 1].sec, k0, Doing.sec) /\ Leads(o0, calls[n - 1].sec)
  <2>1. Leads(o0, calls[n - 1].sec)
    BY <1>6 DEF BasesLead
  <2>2. VectorCall(calls[n - 1], Doing)
    BY <1>3, <1>4 DEF CallOK, InSectionCall, ElementCall
  <2> QED BY <1>5, <2>1, <2>2 DEF VectorCall
<1>8. PICK p \in Path : p = Append(o0, <<k0, x>>)
  BY PathAppend
<1>9. Leads(p, Doing.sec)
  BY <1>4, <1>6, <1>7, <1>8, LeadsAppend
<1>10. /\ g.call = "sec" /\ g.base = Own(p) /\ g.sec = Doing.sec /\ ToVisit(g) = DOMAIN Schema[Doing.sec]
  <2>1. ElementBase(Doing) = Own(p)
    BY <1>5, <1>8 DEF ElementBase
  <2>2. Own(p) \in [obj : Path, shifted : BOOLEAN]
    BY DEF Own
  <2>3. ItemArray(Doing.sec) \notin freed
    <3>1. ~Ended(Doing.sec)
      BY <1>1, <1>3, <1>4 DEF FinInv, LiveOK
    <3>2. Doing.sec # Top
      BY <1>6, <1>7, TreeAssumption
    <3> QED BY <1>4, <3>1, <3>2 DEF FinInv, ArraysOK, Ended, EndedIn
  <2>4. PICK u \in Section, b \in [obj : Path, shifted : BOOLEAN], d \in BOOLEAN :
          u = Doing.sec /\ b = Own(p) /\ d = FALSE
    BY <1>4, <2>2
  <2>5. g = SecCall(u, b, d, d) /\ ItemArray(u) \notin freed
    BY <2>1, <2>3, <2>4
  <2>6. /\ SecCall(u, b, d, d).call = "sec" /\ SecCall(u, b, d, d).base = b
        /\ SecCall(u, b, d, d).sec = u /\ ToVisit(SecCall(u, b, d, d)) = DOMAIN Schema[u]
    BY ONLY <2>5, SecCallFacts
  <2> QED BY <2>4, <2>5, <2>6
<1> HIDE DEF f, g
<1>11. \A q \in Path, l \in Kw : Below_(q, o0, k0, x) => ~SpentIn(freed, q, l)
  <2>1. Ahead(n - 1)
    BY <1>6 DEF FinInv, ContentsOK
  <2>2. ~VectorGone(n - 1, k0)
    BY <1>6 DEF VectorGone
  <2>3. ~VisitedElement(n - 1, k0, x)
    BY <1>4, <1>5, <1>6 DEF VisitedElement
  <2> QED BY <1>6, <2>1, <2>2, <2>3 DEF Ahead, Spent
<1>12. ASSUME NEW o \in Touched \cap Path, NEW s \in Section, NEW k \in DOMAIN Schema[s],
             Leads(o, s), Holding(s, o, k) \in Contents, NEW i \in 1..n, InReach(i, o, k)
       PROVE  Coming(o, k)'
  <2>1. CASE i \in 1..(n - 1) /\ i # n - 1
    <3>1. i + 1 # n
      BY <1>4, <2>1
    <3>2. i \in 1..m /\ InReach(i, o, k)'
      BY <1>3, <1>4, <1>12, <2>1, <3>1, ReachStays
    <3> QED BY <1>3, <3>2 DEF Coming
  <2>2. CASE i = n - 1
    <3>1. Visits(n - 1)' /\ n - 1 \in 1..m
      BY <1>4, <1>6 DEF Visits
    <3>2. CASE o = o0 /\ k \in ToVisit(calls[n - 1])
      BY <1>3, <1>6, <3>1, <3>2 DEF Coming, InReach
    <3>3. ASSUME NEW l \in ToVisit(calls[n - 1]), NEW r \in Nat, Below_(o, o0, l, r),
                 ~VectorGone(n - 1, l), ~VisitedElement(n - 1, l, r)
          PROVE  Coming(o, k)'
      <4>1. CASE l = k0 /\ r = x
        <5>1. o = p \/ \E q \in Kw, y \in Nat : Below_(o, p, q, y)
          BY <1>5, <1>8, <3>3, <4>1, BelowSplit
        <5>2. \A q \in Kw : Vec(p, q) \notin freed'
          <6>1. Below_(p, o0, k0, x)
            BY <1>8, BelowAppend
          <6>2. \A q \in Kw : ~SpentIn(freed, p, q)
            BY <1>11, <6>1
          <6> QED BY <1>3, <6>2 DEF SpentIn, OwnContent
        <5>3. calls'[m].call = "sec" /\ calls'[m].base = Own(p)
              /\ ToVisit(calls'[m]) = DOMAIN Schema[Doing.sec]
          BY <1>3, <1>10
        <5>4. InReach(m, o, k)'
          BY <1>3, <1>4, <1>9, <1>12, <5>1, <5>2, <5>3, ReachArrives
        <5> QED BY <1>3, <1>4, <5>4 DEF Coming
      <4>2. CASE ~(l = k0 /\ r = x)
        <5>1. ~VectorGone(n - 1, l)'
          BY <1>3, <1>6, <3>3 DEF VectorGone
        <5>2. ~VisitedElement(n - 1, l, r)'
          <6> SUFFICES ASSUME VisitedElement(n - 1, l, r)' PROVE FALSE
            OBVIOUS
          <6>1. l = k0 /\ r < f.next
            BY <1>3, <1>6 DEF VisitedElement
          <6>2. f.next = x + 1
            BY <1>3, <1>5
          <6>3. r < x
            BY <4>2, <6>1, <6>2
          <6>4. n - 1 < Len(calls)
            BY <1>1, <1>4
          <6> QED BY <1>3, <1>4, <1>5, <1>6, <3>3, <6>1, <6>3, <6>4 DEF VisitedElement
        <5>3. InReach(n - 1, o, k)'
          BY <1>6, <3>1, <3>3, <5>1, <5>2 DEF InReach
        <5> QED BY <1>3, <3>1, <5>3 DEF Coming
      <4> QED BY <4>1, <4>2
    <3> QED BY <1>6, <1>12, <2>2, <3>2, <3>3 DEF InReach
  <2>3. i # n
    BY <1>3, <1>4, <1>12 DEF InReach, Visits
  <2> QED BY <1>4, <2>1, <2>2, <2>3
<1>13. Keeps
  BY <1>1, <1>12 DEF Keeps, Coming
<1>14. Leads(calls'[m].base.obj, calls'[m].sec)
  BY <1>3, <1>9, <1>10 DEF Own
<1>15. BasesLead'
  BY <1>3, <1>14, BasesStay
<1> QED BY <1>13, <1>15

(* and after the last one the vector is freed. *)
LEMMA DestroyedEmpties ==
  ASSUME FinInv, FinInv', ParsedOK, stack = <<>>, BasesLead, ElementsDestroyed
  PROVE  Keeps /\ BasesLead'
<1>1. PICK n : n = Len(calls)
  OBVIOUS
<1>2. PICK m : m = n - 1
  OBVIOUS
<1>3. /\ calls # <<>> /\ Doing.call = "vec" /\ calls' = Others
      /\ freed' = freed \cup {Vec(Doing.obj, Doing.kw)}
      /\ Doing.next > Cardinality(Entries(Doing.obj, Doing.kw))
  BY DEF ElementsDestroyed, Finalizing, FinInv, PhaseOK, Free
<1>4. /\ n \in Nat \ {0} /\ Doing = calls[n] /\ n \in 1..Len(calls) /\ StackStep(n, m)
      /\ Doing \in CallFrame /\ m = Len(calls') /\ m # n + 1 /\ (n - 1) + 1 = n
      /\ \A i \in 1..n : i \in 1..(n - 1) \/ i = n
  BY <1>1, <1>2, <1>3, DoingFacts, PoppedCalls DEF FinInv, StackStep
<1>5. PICK o0 \in Path, k0 \in Kw, x \in Nat : o0 = Doing.obj /\ k0 = Doing.kw /\ x = Doing.next
  BY <1>3, <1>4, FrameFacts
<1>6. /\ m \in 1..Len(calls) /\ m \in 1..(n - 1) /\ m \in 1..m /\ Visits(m) /\ calls[m].base.obj = o0
      /\ Head(calls[m].todo) = k0 /\ Schema[calls[m].sec][k0].type = "VSEC"
      /\ calls'[m] = calls[m] /\ m + 1 = n /\ m < n /\ calls[m].sec \in Section
  <2>1. /\ m \in 1..Len(calls) /\ Visits(m) /\ calls[m].base.obj = o0
        /\ Head(calls[m].todo) = k0 /\ Schema[calls[m].sec][k0].type = "VSEC"
    BY <1>2, <1>3, <1>4, <1>5, VectorFrame
  <2>2. m \in 1..(n - 1) /\ m \in 1..m /\ m + 1 = n /\ m < n
    BY <1>2, <1>4, <2>1
  <2>3. calls[m].sec \in Section
    BY <1>1, <1>3, <2>1, DoingFacts DEF FinInv
  <2> QED BY <1>4, <2>1, <2>2, <2>3 DEF StackStep
<1>7. ASSUME NEW o \in Touched \cap Path, NEW s \in Section, NEW k \in DOMAIN Schema[s],
             Leads(o, s), Holding(s, o, k) \in Contents, NEW i \in 1..n, InReach(i, o, k)
      PROVE  i \in 1..m /\ InReach(i, o, k)'
  <2>1. CASE i \in 1..(n - 1) /\ i # m
    <3>1. i + 1 # n /\ i \in 1..(m - 1)
      BY <1>2, <1>4, <2>1
    <3>2. Visits(i)
      BY <1>7 DEF InReach
    <3>3. calls'[i] = calls[i] /\ i \in 1..m /\ i < m
      BY <1>4, <1>6, <2>1, <3>1 DEF StackStep
    <3>4. Ahead(i)'
      BY <1>4, <3>2, <3>3 DEF FinInv, ContentsOK, Visits
    <3>5. ASSUME NEW l \in ToVisit(calls[i]) PROVE ~VectorGone(i, l)'
      BY <1>4, <3>3, <3>4 DEF Ahead, VectorGone, Spent, SpentIn, OwnContent
    <3>6. ASSUME NEW l, NEW r \in Nat, ~VisitedElement(i, l, r) PROVE ~VisitedElement(i, l, r)'
      <4>1. i + 1 \in 1..(n - 1) /\ i < Len(calls)
        BY <1>1, <1>2, <1>4, <3>1
      <4>2. calls'[i + 1] = calls[i + 1]
        BY <1>4, <4>1 DEF StackStep
      <4> QED BY <3>3, <3>6, <4>1, <4>2 DEF VisitedElement
    <3> QED BY <1>7, <3>3, <3>5, <3>6 DEF InReach, Visits
  <2>2. CASE i = m
    <3>1. Leads(o0, calls[m].sec) /\ Visits(m)'
      BY <1>6 DEF BasesLead, Visits
    <3>2. CASE o = o0 /\ k \in ToVisit(calls[m])
      BY <1>6, <2>2, <3>1, <3>2 DEF InReach
    <3>3. ASSUME NEW l \in ToVisit(calls[m]), NEW r \in Nat, Below_(o, o0, l, r),
                 ~VectorGone(m, l), ~VisitedElement(m, l, r)
          PROVE  InReach(m, o, k)'
      <4>1. l # k0
        <5> SUFFICES ASSUME l = k0 PROVE FALSE
          OBVIOUS
        <5>1. r \in 1..Cardinality(Entries(o0, k0))
          BY <1>6, <1>7, <3>1, <3>3, ElementThere
        <5>2. Cardinality(Entries(o0, k0)) \in Nat
          BY EntriesFinite DEF ParsedOK, ParserInv, FrameInv
        <5>3. r < x
          BY <1>3, <1>5, <5>1, <5>2
        <5> QED BY <1>1, <1>3, <1>4, <1>5, <1>6, <3>3, <5>3 DEF VisitedElement
      <4>2. ~VectorGone(m, l)' /\ ~VisitedElement(m, l, r)'
        BY <1>6, <4>1 DEF VectorGone, VisitedElement
      <4> QED BY <1>6, <3>1, <3>3, <4>2 DEF InReach
    <3> QED BY <1>6, <1>7, <2>2, <3>2, <3>3 DEF InReach
  <2>3. i # n
    BY <1>3, <1>4, <1>7 DEF InReach, Visits
  <2> QED BY <1>4, <2>1, <2>2, <2>3
<1>8. Keeps
  BY <1>1, <1>4, <1>7 DEF Keeps, Coming
<1>9. BasesLead'
  BY <1>4, BasesStay
<1> QED BY <1>8, <1>9

(* A section is done with. *)
LEMMA DoneEmpties ==
  ASSUME FinInv, FinInv', ParsedOK, BasesLead, SectionDone
  PROVE  Keeps /\ BasesLead'
<1>1. PICK n : n = Len(calls)
  OBVIOUS
<1>2. PICK m : m = n - 1
  OBVIOUS
<1>3. /\ calls # <<>> /\ Doing.call = "sec" /\ Doing.todo = <<>> /\ calls' = Others
      /\ freed' = freed \cup OwnMemory(Doing)
  BY DEF SectionDone, Finalizing, FinInv, PhaseOK, Free
<1>4. /\ n \in Nat \ {0} /\ Doing = calls[n] /\ n \in 1..n /\ StackStep(n, m)
      /\ m = Len(calls') /\ m # n + 1
      /\ \A i \in 1..n : i \in 1..(n - 1) \/ i = n
  BY <1>1, <1>2, <1>3, DoingFacts, PoppedCalls DEF FinInv, StackStep
<1>5. \A p, l : Vec(p, l) \in freed' => Vec(p, l) \in freed
  BY <1>3, BlocksDiffer DEF OwnMemory
<1>6. ASSUME NEW o, NEW k, NEW i \in 1..n, InReach(i, o, k)
      PROVE  i \in 1..m /\ InReach(i, o, k)'
  <2>1. CASE i \in 1..(n - 1)
    BY <1>3, <1>4, <1>5, <1>6, <2>1, ReachStays
  <2>2. CASE i = n
    <3>1. ToVisit(Doing) = {}
      BY <1>3 DEF ToVisit
    <3> QED BY <1>4, <1>6, <2>2, <3>1 DEF InReach
  <2> QED BY <1>4, <2>1, <2>2
<1>7. Keeps
  BY <1>1, <1>4, <1>6 DEF Keeps, Coming
<1>8. BasesLead'
  BY <1>4, BasesStay
<1> QED BY <1>7, <1>8

-----------------------------------------------------------------------------
(* Finalising leaves what was parsed alone. *)
LEMMA FinStepParsed ==
  ASSUME FinStep \/ Finalize \/ FinalizeAgain \/ Over
  PROVE  UNCHANGED vars /\ Touched' = Touched /\ Contents' = Contents
<1>1. UNCHANGED vars
  BY DEF FinStep, FreePlain, FreeString, FreeVector, FreeTable, FreeUser, FreeSection,
     DestroyElements, FreeElementSection, FreeWhatIsNone, DestroyElement, ElementsDestroyed,
     SectionDone, Visit, Finalize, FinalizeAgain, Over, fvars
<1> QED BY <1>1 DEF vars, Touched, Contents, Stored

LEMMA FinStepParses ==
  [FinNext]_fvars => [Next]_vars
<1>1. UNCHANGED fvars => UNCHANGED vars
  BY DEF fvars
<1>2. ParseBefore => [Next]_vars
  BY DEF ParseBefore
<1> QED BY <1>1, <1>2, FinStepParsed DEF FinNext

LEMMA FinStepEmpties ==
  ASSUME FinInv, FinInv', NoVectorInElement, ParsedOK, BasesLead, RestOK, FinStep
  PROVE  BasesLead' /\ RestOK'
<1>1. phase = "finalize"
  BY DEF FinStep, FreePlain, FreeString, FreeVector, FreeTable, FreeUser, FreeSection,
     DestroyElements, FreeElementSection, FreeWhatIsNone, DestroyElement, ElementsDestroyed,
     SectionDone, Visit, Finalizing
<1>2. stack = <<>> /\ Closed \subseteq freed
  BY <1>1 DEF RestOK
<1>3. stack' = <<>> /\ Touched' = Touched /\ Contents' = Contents /\ marks' = marks
  BY <1>2, FinStepParsed DEF vars
<1>4. CASE Stuck
  BY <1>1, <1>2, <1>3, <1>4 DEF Stuck, RestOK, BasesLead, Visits
<1>5. ASSUME Keeps, BasesLead', freed \subseteq freed'
      PROVE  BasesLead' /\ RestOK'
  <2>1. Closed \subseteq freed'
    BY <1>2, <1>5
  <2>2. ASSUME NEW o \in Touched \cap Path, NEW s \in Section, NEW k \in DOMAIN Schema[s],
               Leads(o, s), Holding(s, o, k) \in Contents
        PROVE  Holding(s, o, k) \in freed' \/ Excused(s, o, k) \/ Coming(o, k)'
    <3>1. Holding(s, o, k) \in freed \/ Excused(s, o, k) \/ Coming(o, k)
      BY <1>1, <2>2 DEF RestOK
    <3> QED BY <1>5, <2>2, <3>1 DEF Keeps
  <2>3. \A s, o, k : Excused(s, o, k) => Excused(s, o, k)'
    BY <1>3 DEF Excused
  <2>4. \A o \in Touched' \cap Path, s \in Section : \A k \in DOMAIN Schema[s] :
           Leads(o, s) /\ Holding(s, o, k) \in Contents' =>
             \/ Holding(s, o, k) \in freed' \/ Excused(s, o, k)' \/ Coming(o, k)'
    BY <1>3, <2>2, <2>3
  <2> QED BY <1>3, <1>5, <2>1, <2>4 DEF RestOK
<1>6. ASSUME NEW k \in Kw, ItemStep(k) PROVE Keeps /\ BasesLead' /\ freed \subseteq freed'
  BY <1>6, ItemEmpties DEF ItemStep, Free
<1>7. ASSUME NEW k \in Kw, VectorStep(k) PROVE Keeps /\ BasesLead' /\ freed \subseteq freed'
  BY <1>2, <1>7, VectorEmpties DEF VectorStep
<1>8. ASSUME NEW k \in Kw, NEW c \in Section, NEW b, DownStep(k, c, b)
      PROVE  Keeps /\ BasesLead' /\ freed \subseteq freed'
  BY <1>2, <1>8, DownEmpties DEF DownStep, Free
<1>9. CASE ElementStep
  BY <1>5, <1>9, ElementEmpties DEF ElementStep, Free
<1>10. CASE ElementsDestroyed
  BY <1>2, <1>5, <1>10, DestroyedEmpties DEF ElementsDestroyed, Free
<1>11. CASE SectionDone
  BY <1>5, <1>11, DoneEmpties DEF SectionDone, Free
<1> QED BY <1>4, <1>5, <1>6, <1>7, <1>8, <1>9, <1>10, <1>11, FinStepShape

(* The first call reaches everything. *)
LEMMA StartReaches ==
  ASSUME freed = {}, freed' = Closed, calls' = <<FirstCall>>,
         NEW o \in Path, NEW s \in Section, NEW k \in DOMAIN Schema[s], Leads(o, s)
  PROVE  Coming(o, k)'
<1>1. PICK f : f = FirstCall
  OBVIOUS
<1>2. Len(calls') = 1 /\ calls'[1] = f /\ 1 \in Nat /\ 1 \in 1..1
  BY <1>1
<1>3. f.call = "sec" /\ f.base = Own(<<>>) /\ ToVisit(f) = DOMAIN Schema[Top]
  BY <1>1, FirstCallFacts
<1>4. <<>> \in Path /\ Leads(<<>>, Top) /\ Top \in Section
  BY LeadsEmpty, ParserAssumption DEF Path
<1>5. \A l \in Kw : Vec(<<>>, l) \notin freed'
  BY BlocksDiffer DEF Closed
<1>6. o = <<>> \/ \E l \in Kw, r \in Nat : Below_(o, <<>>, l, r)
  BY BelowTop
<1>7. PICK p \in Path, m \in Nat : p = <<>> /\ m = 1
  BY <1>4
<1>8. /\ m = Len(calls') /\ Leads(p, Top) /\ calls'[m].call = "sec" /\ calls'[m].base = Own(p)
      /\ ToVisit(calls'[m]) = DOMAIN Schema[Top] /\ \A l \in Kw : Vec(p, l) \notin freed'
      /\ o = p \/ \E l \in Kw, r \in Nat : Below_(o, p, l, r)
  BY <1>2, <1>3, <1>4, <1>5, <1>6, <1>7
<1>9. InReach(m, o, k)'
  BY <1>4, <1>8, ReachArrives
<1> QED BY <1>2, <1>7, <1>9 DEF Coming

LEMMA StartLeads ==
  ASSUME calls' = <<FirstCall>>
  PROVE  BasesLead'
<1>1. PICK f : f = FirstCall
  OBVIOUS
<1>2. Len(calls') = 1 /\ calls'[1] = f /\ \A i \in 1..1 : i = 1
  BY <1>1
<1>3. f.base.obj = <<>> /\ f.sec = Top
  BY <1>1, FirstCallFacts DEF Own
<1>4. Leads(<<>>, Top)
  BY LeadsEmpty, ParserAssumption
<1> QED BY <1>2, <1>3, <1>4 DEF BasesLead

LEMMA RestInductive ==
  ASSUME FinInv, FinInv', NoVectorInElement, ParsedOK, BasesLead, RestOK, [FinNext]_fvars
  PROVE  BasesLead' /\ RestOK'
<1>1. CASE UNCHANGED fvars
  <2>1. /\ UNCHANGED <<phase, calls, freed, stack, marks>>
        /\ Touched' = Touched /\ Contents' = Contents
    BY <1>1 DEF fvars, finalizing, vars, Touched, Contents, Stored
  <2>2. \A o, k : Coming(o, k)' <=> Coming(o, k)
    BY <2>1 DEF Coming, InReach, Visits, VectorGone, VisitedElement
  <2>3. \A s, o, k : Excused(s, o, k)' <=> Excused(s, o, k)
    BY <2>1 DEF Excused
  <2>4. BasesLead'
    BY <2>1 DEF BasesLead, Visits
  <2>5. RestOK'
    BY <2>1, <2>2, <2>3 DEF RestOK
  <2> QED BY <2>4, <2>5
<1>2. CASE ParseBefore
  <2>1. phase' = "program" /\ calls' = <<>>
    BY <1>2 DEF ParseBefore, finalizing, FinInv, PhaseOK
  <2>2. \A i \in 1..Len(calls') : FALSE
    BY <2>1
  <2> QED BY <2>1, <2>2 DEF RestOK, BasesLead
<1>3. CASE Finalize
  <2>1. /\ phase' = "finalize" /\ calls' = <<FirstCall>> /\ freed = {} /\ freed' = Closed
        /\ Between
    BY <1>3 DEF Finalize, FirstCall, Free, FinInv, PhaseOK
  <2>2. stack = <<>>
    BY <2>1 DEF ParsedOK, ParserInv, FrameInv, StackOK
  <2>3. stack' = <<>>
    BY <1>3, <2>2, FinStepParsed DEF vars
  <2>4. \A o \in Path, s \in Section : \A k \in DOMAIN Schema[s] : Leads(o, s) => Coming(o, k)'
    BY <2>1, StartReaches
  <2>5. RestOK'
    BY <2>1, <2>3, <2>4 DEF RestOK
  <2> QED BY <2>1, <2>5, StartLeads
<1>4. CASE FinalizeAgain
  <2>1. /\ phase = "done" /\ phase' # "program" /\ freed' = freed \cup Closed
        /\ calls' = <<FirstCall>> \/ calls' = calls
        /\ calls = <<>>
    BY <1>4 DEF FinalizeAgain, FirstCall, Free, FinInv, PhaseOK
  <2>2. BasesLead'
    BY <2>1, StartLeads DEF BasesLead, Visits
  <2>3. stack' = <<>> /\ Touched' = Touched /\ Contents' = Contents /\ marks' = marks
    BY <1>4, <2>1, FinStepParsed DEF vars, RestOK
  <2>4. \A o, k : ~Coming(o, k)
    <3>1. \A i \in 1..Len(calls) : FALSE
      BY <2>1
    <3> QED BY <3>1 DEF Coming
  <2>5. \A o \in Touched \cap Path, s \in Section : \A k \in DOMAIN Schema[s] :
           Leads(o, s) /\ Holding(s, o, k) \in Contents =>
             \/ Holding(s, o, k) \in freed' \/ Excused(s, o, k)
    BY <2>1, <2>4 DEF RestOK
  <2>6. \A s, o, k : Excused(s, o, k) => Excused(s, o, k)'
    BY <2>3 DEF Excused
  <2>7. RestOK'
    BY <2>1, <2>3, <2>5, <2>6 DEF RestOK
  <2> QED BY <2>2, <2>7
<1>5. CASE FinStep
  BY <1>5, FinStepEmpties
<1>6. CASE Over
  BY <1>1, <1>6 DEF Over
<1> QED BY <1>1, <1>2, <1>3, <1>4, <1>5, <1>6 DEF FinNext

-----------------------------------------------------------------------------
(* When scapar_finalize returns, every section has ended. *)
LEMMA AllEnd ==
  ASSUME FinInv, phase = "done", NEW s \in Section
  PROVE  /\ s # Top => Descriptor(s) \in freed
         /\ \A k \in DOMAIN Schema[s] : Passed(s, k)
         /\ DOMAIN Schema[s] # {} => ItemArray(s) \in freed
<1>1. calls = <<>> /\ (ItemOrder[Top] = <<>> \/ ItemArray(Top) \in freed)
  BY DEF FinInv, PhaseOK
<1>2. ASSUME NEW t \in Section, DOMAIN Schema[t] # {}
      PROVE  ItemOrder[t] # <<>>
  <2>1. {ItemOrder[t][i] : i \in 1..Len(ItemOrder[t])} # {}
    BY <1>2, ItemOrderFacts
  <2> QED BY <2>1
<1>3. ASSUME NEW t \in Section, t = Top \/ Descriptor(t) \in freed, NEW k \in DOMAIN Schema[t]
      PROVE  Passed(t, k) /\ ItemArray(t) \in freed
  <2>1. ItemOrder[t] # <<>>
    BY <1>2, <1>3
  <2>2. ItemArray(t) \in freed
    BY <1>1, <1>3, <2>1 DEF FinInv, ArraysOK
  <2> QED BY <1>3, <2>2 DEF Passed, PassedBy, EndedIn
<1>4. \A c \in Section : c = Top \/ Descriptor(c) \in freed
  <2> DEFINE L == {x \in Nat : \E c \in Section \ {Top} : Descriptor(c) \notin freed /\ Age[c] = x}
  <2> SUFFICES ASSUME NEW c0 \in Section \ {Top}, Descriptor(c0) \notin freed PROVE FALSE
    OBVIOUS
  <2>1. Age[c0] \in L
    BY AgesAreNumbers
  <2>2. PICK x \in L : \A y \in L : x <= y
    <3>1. L \in SUBSET Nat /\ L # {}
      BY <2>1
    <3> HIDE DEF L
    <3> QED BY <3>1, LeastNumber
  <2>3. PICK c \in Section \ {Top} : Descriptor(c) \notin freed /\ Age[c] = x
    BY <2>2
  <2>4. PICK s1 \in Section, k \in Kw : Owns(s1, k, c)
    BY OwnedAssumption
  <2>5. Age[s1] < Age[c] /\ Age[s1] \in Nat /\ Age[c] \in Nat
    BY <2>3, <2>4, AgeFacts, AgesAreNumbers DEF Older
  <2>6. s1 = Top \/ Descriptor(s1) \in freed
    <3> SUFFICES ASSUME s1 # Top, Descriptor(s1) \notin freed PROVE FALSE
      OBVIOUS
    <3>1. Age[s1] \in L
      BY <2>5
    <3>2. Age[c] <= Age[s1]
      BY <2>2, <2>3, <3>1
    <3> QED BY <2>5, <3>2
  <2>7. k \in DOMAIN Schema[s1]
    BY <2>4 DEF Owns
  <2>8. Passed(s1, k)
    BY <1>3, <2>6, <2>7
  <2>9. \E i \in 1..Len(calls) : Destroys(calls[i], c)
    BY <2>3, <2>4, <2>8 DEF FinInv, ChildrenOK
  <2> QED BY <1>1, <2>9
<1> QED BY <1>3, <1>4

LEMMA NothingElseLeft ==
  ASSUME FinInv, ParsedOK, RestOK
  PROVE  OnlyStringsLeft
<1> SUFFICES ASSUME phase = "done", NEW b \in Allocated, b \notin freed
             PROVE  /\ b[1] = "string" /\ InElement(b[2])
                    /\ \E s \in Section : /\ Leads(b[2], s)
                                          /\ b[3] \in DOMAIN Schema[s] \ marks[s]
  BY DEF OnlyStringsLeft
<1>1. b \notin Registered
  <2>1. FileHandle \in freed /\ EndingMark \in freed
    BY DEF RestOK, Closed
  <2>2. \A s \in Section \ {Top} : Descriptor(s) \in freed
    BY AllEnd
  <2>3. \A s \in {t \in Section : DOMAIN Schema[t] # {}} : ItemArray(s) \in freed
    BY AllEnd
  <2>4. \A s \in Section : \A k \in DOMAIN Schema[s] : Name(s, k) \in freed
    BY AllEnd DEF FinInv, NamesOK
  <2> QED BY <2>1, <2>2, <2>3, <2>4 DEF Registered
<1>2. b \in Contents
  BY <1>1 DEF Allocated
<1>3. PICK o \in Touched \cap Path, s \in Section : \E k \in DOMAIN Schema[s] :
        Leads(o, s) /\ b = Holding(s, o, k)
  BY <1>2, ContentFacts
<1>4. PICK k \in DOMAIN Schema[s] : Leads(o, s) /\ b = Holding(s, o, k)
  BY <1>3
<1>5. ~Coming(o, k)
  <2>1. calls = <<>>
    BY DEF FinInv, PhaseOK
  <2>2. \A i \in 1..Len(calls) : FALSE
    BY <2>1
  <2> QED BY <2>2 DEF Coming
<1>6. Excused(s, o, k)
  BY <1>2, <1>4, <1>5 DEF RestOK
<1>7. b[1] = KindOf(s, k) /\ b[2] = o /\ b[3] = k
  BY <1>4 DEF Holding
<1> QED BY <1>4, <1>6, <1>7 DEF Excused

LEMMA FinalizerParses ==
  FinSpec => []ParsedOK
<1>1. FinInit => Init
  BY DEF FinInit
<1>2. Init => ParserInv
  BY FramesInitially DEF Init, ReachOK, Touched, OnceOK, MarkedIfGiven, SingleGiven,
     OncePerObject, ParserInv
<1>3. ParserInv /\ [Next]_vars => ParserInv'
  BY FramesInductive, ReachInductive, OnceInductive DEF ParserInv
<1>4. FinInit => ParsedOK
  BY <1>1, <1>2, VectorsInitially DEF ParsedOK
<1>5. ParsedOK /\ [FinNext]_fvars => ParsedOK'
  BY <1>3, FinStepParses, VectorsInductive DEF ParsedOK, ParserInv
<1> QED BY <1>4, <1>5, PTL DEF FinSpec

(* When scapar_finalize returns, all memory the library has allocated has  *)
(* been freed, but for strings in elements whose keywords are not marked.  *)
THEOREM FinalizerLeavesOnlyStrings ==
  ASSUME NoVectorInElement
  PROVE  FinSpec => []OnlyStringsLeft
<1>1. FinInit => FinInv /\ BasesLead /\ RestOK
  <2>1. FinInit => phase = "program" /\ calls = <<>>
    BY DEF FinInit
  <2>2. calls = <<>> => \A i \in 1..Len(calls) : FALSE
    OBVIOUS
  <2> QED BY <2>1, <2>2, FinInvInit DEF BasesLead, RestOK
<1>2. FinInv /\ ParsedOK /\ BasesLead /\ RestOK /\ [FinNext]_fvars => (FinInv /\ BasesLead /\ RestOK)'
  BY FinInvNext, RestInductive
<1>3. FinInv /\ ParsedOK /\ RestOK => OnlyStringsLeft
  BY NothingElseLeft
<1> QED BY <1>1, <1>2, <1>3, FinalizerParses, PTL DEF FinSpec

-----------------------------------------------------------------------------
(* Base addresses *)

Base == {Wild} \cup Path
PrintFrame ==
  [call : {"sec"}, sec : Section, todo : Seq(Kw), all : BOOLEAN]
    \cup [call : {"vec"}, sec : Section, obj : Path, kw : Kw, next : Nat, old : Base]

(* Printing goes from the section of a vector to its elements and from an  *)
(* element to the vectors in it, into younger sections each time.          *)
Nested(i) ==
  /\ printing[i].call = "sec" =>
       i = 1 \/ (printing[i - 1].call = "vec" /\ printing[i - 1].sec = printing[i].sec)
  /\ printing[i].call = "vec" =>
       /\ i > 1 /\ printing[i - 1].call = "sec"
       /\ \A j \in 1..(i - 1) : Age[printing[j].sec] < Age[printing[i].sec]
  /\ \A j \in 1..i : Age[printing[j].sec] <= Age[printing[i].sec]

(* An element of section s is being printed. *)
Borrowed(s) ==
  \E i \in 1..(Len(printing) - 1) : printing[i].call = "vec" /\ printing[i].sec = s

BaseInv ==
  /\ printing \in Seq(PrintFrame) /\ base \in [Section -> Base]
  /\ \A i \in 1..Len(printing) : Nested(i)
  /\ \A i \in 1..(Len(printing) - 1) :
       printing[i].call = "vec" => printing[i].old = Base0[printing[i].sec]
  /\ \A s \in Section : Borrowed(s) \/ base[s] = Base0[s]

(* The innermost call, and what lies below it *)
LEMMA NowFacts ==
  ASSUME BaseInv, printing # <<>>, NEW n, n = Len(printing)
  PROVE  /\ n \in Nat \ {0} /\ Now = printing[n] /\ Now \in PrintFrame
         /\ Outer \in Seq(PrintFrame) /\ Len(Outer) = n - 1
         /\ \A i \in 1..(n - 1) : Outer[i] = printing[i]
         /\ \A i \in 1..n : /\ printing[i] \in PrintFrame /\ printing[i].sec \in Section
                            /\ printing[i].call \in {"sec", "vec"}
                            /\ Age[printing[i].sec] \in Nat
<1>1. printing \in Seq(PrintFrame) /\ n \in Nat \ {0}
  BY DEF BaseInv
<1>2. /\ Outer \in Seq(PrintFrame) /\ Len(Outer) = n - 1
      /\ \A i \in 1..(n - 1) : Outer[i] = printing[i]
  BY <1>1, FrontAndLast DEF Outer
<1>3. \A i \in 1..n : printing[i] \in PrintFrame
  BY <1>1
<1>4. \A f \in PrintFrame : f.sec \in Section /\ f.call \in {"sec", "vec"}
  BY DEF PrintFrame
<1>5. \A i \in 1..n : Age[printing[i].sec] \in Nat
  BY <1>3, <1>4, AgesAreNumbers
<1> QED BY <1>1, <1>2, <1>3, <1>4, <1>5 DEF Now

(* Frames that stay, and one on top of them *)
LEMMA NestedStays ==
  ASSUME BaseInv, NEW i \in 1..Len(printing),
         \A j \in 1..i : /\ printing'[j].call = printing[j].call
                         /\ printing'[j].sec = printing[j].sec
  PROVE  Nested(i)'
<1>1. i - 1 \in 1..i \/ i = 1
  BY DEF BaseInv
<1>2. \A j \in 1..(i - 1) : j \in 1..i
  BY DEF BaseInv
<1>3. Nested(i) /\ i \in 1..i
  BY DEF BaseInv
<1> QED BY <1>1, <1>2, <1>3 DEF Nested

LEMMA ReplaceTop ==
  ASSUME BaseInv, printing # <<>>, NEW f \in PrintFrame
  PROVE  /\ Append(Outer, f) \in Seq(PrintFrame)
         /\ Len(Append(Outer, f)) = Len(printing)
         /\ \A i \in 1..(Len(printing) - 1) : Append(Outer, f)[i] = printing[i]
         /\ Append(Outer, f)[Len(printing)] = f
<1>1. PICK n : n = Len(printing)
  OBVIOUS
<1>2. /\ n \in Nat \ {0} /\ Outer \in Seq(PrintFrame) /\ Len(Outer) = n - 1
      /\ \A i \in 1..(n - 1) : Outer[i] = printing[i]
  BY <1>1, NowFacts
<1>3. /\ Append(Outer, f) \in Seq(PrintFrame) /\ Len(Append(Outer, f)) = (n - 1) + 1
      /\ \A i \in 1..(n - 1) : Append(Outer, f)[i] = Outer[i]
      /\ Append(Outer, f)[(n - 1) + 1] = f
  BY <1>2, AppendProperties
<1>4. (n - 1) + 1 = n
  BY <1>2
<1> QED BY <1>1, <1>2, <1>3, <1>4

(* The innermost call goes on. *)
LEMMA TopGoesOn ==
  ASSUME BaseInv, printing # <<>>, NEW f \in PrintFrame,
         f.call = Now.call, f.sec = Now.sec,
         printing' = Append(Outer, f), base' = base
  PROVE  BaseInv'
<1>1. PICK n : n = Len(printing)
  OBVIOUS
<1>2. /\ n \in Nat \ {0} /\ Now = printing[n]
      /\ printing' \in Seq(PrintFrame) /\ Len(printing') = n
      /\ \A i \in 1..(n - 1) : printing'[i] = printing[i]
      /\ printing'[n] = f
  BY <1>1, NowFacts, ReplaceTop
<1>3. \A i \in 1..n : printing'[i].call = printing[i].call /\ printing'[i].sec = printing[i].sec
  <2> TAKE i \in 1..n
  <2>1. i \in 1..(n - 1) \/ i = n
    BY <1>2
  <2> QED BY <1>2, <2>1
<1>4. ASSUME NEW i \in 1..n
      PROVE  Nested(i)'
  <2>1. \A j \in 1..i : j \in 1..n
    BY <1>2
  <2> QED BY <1>1, <1>3, <2>1, NestedStays
<1>5. \A i \in 1..(n - 1) : i \in 1..n
  BY <1>2
<1>6. \A s \in Section : Borrowed(s) => Borrowed(s)'
  BY <1>1, <1>2 DEF Borrowed
<1> QED BY <1>1, <1>2, <1>4, <1>6 DEF BaseInv

(* The innermost call returns; when an element is done, the old base       *)
(* address is put back.                                                    *)
LEMMA TopReturns ==
  ASSUME BaseInv, printing # <<>>, printing' = Outer, base' \in [Section -> Base],
         \A s \in Section : base'[s] = base[s] \/ (Len(printing) > 1 /\ base'[s] = Base0[s]),
         \A s \in Section : Len(printing) > 1 /\ printing[Len(printing) - 1].call = "vec"
                              /\ printing[Len(printing) - 1].sec = s => base'[s] = Base0[s]
  PROVE  BaseInv'
<1>1. PICK n : n = Len(printing)
  OBVIOUS
<1>2. /\ n \in Nat \ {0}
      /\ printing' \in Seq(PrintFrame) /\ Len(printing') = n - 1
      /\ \A i \in 1..(n - 1) : printing'[i] = printing[i]
  BY <1>1, NowFacts
<1>3. ASSUME NEW i \in 1..(n - 1)
      PROVE  Nested(i)'
  <2>1. (\A j \in 1..i : j \in 1..(n - 1)) /\ i \in 1..n
    BY <1>2
  <2> QED BY <1>1, <1>2, <2>1, NestedStays
<1>4. ASSUME NEW i \in 1..((n - 1) - 1), printing'[i].call = "vec"
      PROVE  printing'[i].old = Base0[printing'[i].sec]
  <2>1. i \in 1..(n - 1)
    BY <1>2
  <2> QED BY <1>1, <1>2, <1>4, <2>1 DEF BaseInv
<1>5. ASSUME NEW s \in Section
      PROVE  Borrowed(s)' \/ base'[s] = Base0[s]
  <2>1. CASE base[s] = Base0[s]
    BY <2>1
  <2>2. ASSUME NEW i \in 1..(n - 1), printing[i].call = "vec", printing[i].sec = s
        PROVE  Borrowed(s)' \/ base'[s] = Base0[s]
    <3>1. CASE i = n - 1
      <4>1. n > 1
        BY <1>2, <3>1
      <4> QED BY <1>1, <2>2, <3>1, <4>1
    <3>2. CASE i \in 1..((n - 1) - 1)
      BY <1>2, <2>2, <3>2 DEF Borrowed
    <3> QED BY <1>2, <3>1, <3>2
  <2> QED BY <1>1, <2>1, <2>2 DEF BaseInv, Borrowed
<1> QED BY <1>2, <1>3, <1>4, <1>5 DEF BaseInv

(* The innermost call makes another. *)
LEMMA TopCalls ==
  ASSUME BaseInv, printing # <<>>, NEW f \in PrintFrame, NEW g \in PrintFrame,
         f.call = Now.call, f.sec = Now.sec, g.call # f.call,
         f.call = "vec" => g.sec = f.sec /\ f.old = Base0[f.sec],
         f.call = "sec" => Age[f.sec] < Age[g.sec],
         printing' = Append(Append(Outer, f), g), base' \in [Section -> Base],
         \A s \in Section : base'[s] = base[s] \/ (f.call = "vec" /\ s = f.sec)
  PROVE  BaseInv'
<1>1. PICK n : n = Len(printing)
  OBVIOUS
<1>2. PICK p : p = Append(Outer, f)
  OBVIOUS
<1>3. /\ n \in Nat \ {0} /\ Now = printing[n]
      /\ p \in Seq(PrintFrame) /\ Len(p) = n
      /\ \A i \in 1..(n - 1) : p[i] = printing[i]
      /\ p[n] = f
  BY <1>1, <1>2, NowFacts, ReplaceTop
<1>4. /\ printing' \in Seq(PrintFrame) /\ Len(printing') = n + 1
      /\ \A i \in 1..n : printing'[i] = p[i]
      /\ printing'[n + 1] = g
  BY <1>2, <1>3, AppendProperties
<1>5. /\ \A i \in 1..n : printing'[i].call = printing[i].call /\ printing'[i].sec = printing[i].sec
      /\ printing'[n] = f
      /\ \A i \in 1..(n - 1) : printing'[i] = printing[i]
  <2>1. n \in 1..n /\ \A i \in 1..n : i \in 1..(n - 1) \/ i = n
    BY <1>3
  <2>2. \A i \in 1..(n - 1) : i \in 1..n
    BY <1>3
  <2> QED BY <1>3, <1>4, <2>1, <2>2
<1>6. ASSUME NEW i \in 1..n
      PROVE  Nested(i)'
  <2>1. \A j \in 1..i : j \in 1..n
    BY <1>3
  <2> QED BY <1>1, <1>5, <2>1, NestedStays
<1>7. ASSUME NEW CONSTANT m, m = n + 1
      PROVE  Nested(m)'
  <2>1. m - 1 = n /\ \A j \in 1..m : j = m \/ j \in 1..n
    BY <1>3, <1>7
  <2>2. printing'[m] = g /\ g.call \in {"sec", "vec"} /\ f.call \in {"sec", "vec"}
    BY <1>4, <1>7 DEF PrintFrame
  <2>3. \A j \in 1..n : Age[printing'[j].sec] <= Age[f.sec]
    <3>1. n \in 1..n /\ f.sec = printing[n].sec
      BY <1>3
    <3>2. \A j \in 1..n : Age[printing[j].sec] <= Age[printing[n].sec]
      BY <1>1, <3>1 DEF BaseInv, Nested
    <3> QED BY <1>5, <3>1, <3>2
  <2>4. /\ Age[f.sec] \in Nat /\ Age[g.sec] \in Nat
        /\ \A j \in 1..n : Age[printing'[j].sec] \in Nat
    <3>1. f.sec \in Section /\ g.sec \in Section
      BY DEF PrintFrame
    <3> QED BY <1>1, <1>5, <3>1, AgesAreNumbers, NowFacts
  <2>5. CASE f.call = "vec"
    <3>1. g.call = "sec" /\ g.sec = f.sec
      BY <2>2, <2>5
    <3>2. \A j \in 1..m : Age[printing'[j].sec] <= Age[g.sec]
      <4> TAKE j \in 1..m
      <4>1. CASE j = m
        BY <2>2, <2>4, <4>1, NatOrder, Zenon
      <4>2. CASE j \in 1..n
        BY <2>3, <3>1, <4>2
      <4> QED BY <2>1, <4>1, <4>2
    <3> QED BY <1>5, <2>1, <2>2, <2>5, <3>1, <3>2 DEF Nested
  <2>6. CASE f.call = "sec"
    <3>1. g.call = "vec" /\ Age[f.sec] < Age[g.sec] /\ m > 1
      BY <1>3, <1>7, <2>2, <2>6
    <3>2. \A j \in 1..n : Age[printing'[j].sec] < Age[g.sec]
      <4> TAKE j \in 1..n
      <4>1. Age[printing'[j].sec] \in Nat /\ Age[printing'[j].sec] <= Age[f.sec]
        BY <2>3, <2>4
      <4> QED BY <2>4, <3>1, <4>1, NatOrder, Zenon
    <3>3. \A j \in 1..m : Age[printing'[j].sec] <= Age[g.sec]
      <4> TAKE j \in 1..m
      <4>1. CASE j = m
        BY <2>2, <2>4, <4>1, NatOrder, Zenon
      <4>2. CASE j \in 1..n
        <5>1. Age[printing'[j].sec] \in Nat /\ Age[printing'[j].sec] < Age[g.sec]
          BY <2>4, <3>2, <4>2
        <5> QED BY <2>4, <5>1, NatOrder, Zenon
      <4> QED BY <2>1, <4>1, <4>2
    <3>4. printing'[m - 1].call = "sec"
      BY <1>5, <2>1, <2>6
    <3> QED BY <2>1, <2>2, <3>1, <3>2, <3>3, <3>4 DEF Nested
  <2> QED BY <2>2, <2>5, <2>6
<1>8. ASSUME NEW i \in 1..n, printing'[i].call = "vec"
      PROVE  printing'[i].old = Base0[printing'[i].sec]
  <2>1. i \in 1..(n - 1) \/ i = n
    BY <1>3
  <2> QED BY <1>1, <1>5, <1>8, <2>1 DEF BaseInv
<1>9. ASSUME NEW s \in Section
      PROVE  Borrowed(s)' \/ base'[s] = Base0[s]
  <2>1. \A i \in 1..n : printing'[i].call = "vec" /\ printing'[i].sec = s => Borrowed(s)'
    <3>1. (n + 1) - 1 = n
      BY <1>3
    <3> QED BY <1>4, <3>1 DEF Borrowed
  <2>2. CASE f.call = "vec" /\ s = f.sec
    BY <1>3, <1>5, <2>1, <2>2
  <2>3. CASE base'[s] = base[s]
    <3>1. \A i \in 1..(n - 1) : i \in 1..n
      BY <1>3
    <3> QED BY <1>1, <1>5, <2>1, <2>3, <3>1 DEF BaseInv, Borrowed
  <2> QED BY <2>2, <2>3
<1>10. ASSUME NEW i \in 1..(n + 1)
       PROVE  Nested(i)'
  <2>1. i \in 1..n \/ i = n + 1
    BY <1>3
  <2> QED BY <1>6, <1>7, <2>1
<1>11. (n + 1) - 1 = n
  BY <1>3
<1> QED BY <1>4, <1>8, <1>9, <1>10, <1>11 DEF BaseInv

LEMMA PrintingKeepsBase ==
  ASSUME BaseInv, MarksRegistered, PrStep
  PROVE  BaseInv'
<1>1. printing # <<>>
  BY DEF PrStep, SkipUnparsed, PrintWild, PrintValue, PrintUser, PrintSection, PrintElements,
     Reached, Turn, SecPrinted, PrintElement, VecPrinted, InVector
<1>2. PICK n : n = Len(printing)
  OBVIOUS
<1>3. /\ n \in Nat \ {0} /\ Now = printing[n] /\ Now \in PrintFrame /\ Now.sec \in Section
      /\ Nested(n) /\ base \in [Section -> Base]
  <2>1. n \in 1..n /\ n \in Nat \ {0} /\ Now = printing[n] /\ Now \in PrintFrame /\ Now.sec \in Section
    <3>1. n \in Nat \ {0} /\ Now = printing[n] /\ Now \in PrintFrame
      BY <1>1, <1>2, NowFacts
    <3> QED BY <3>1 DEF PrintFrame
  <2> QED BY <1>2, <2>1 DEF BaseInv
<1>4. ASSUME NEW k \in Kw, Turn(k)
      PROVE  /\ Now \in [call : {"sec"}, sec : Section, todo : Seq(Kw), all : BOOLEAN]
             /\ [Now EXCEPT !.todo = Tail(@)] \in PrintFrame
             /\ [Now EXCEPT !.todo = Tail(@)].call = Now.call
             /\ [Now EXCEPT !.todo = Tail(@)].sec = Now.sec
             /\ base' = base
  <2>1. Now.call = "sec" /\ Now.todo # <<>> /\ base' = base
    BY <1>4 DEF Turn
  <2>2. Now \in [call : {"sec"}, sec : Section, todo : Seq(Kw), all : BOOLEAN]
    BY <1>3, <2>1 DEF PrintFrame
  <2>3. Tail(Now.todo) \in Seq(Kw)
    BY <2>1, <2>2
  <2>4. [Now EXCEPT !.todo = Tail(Now.todo)] \in
          [call : {"sec"}, sec : Section, todo : Seq(Kw), all : BOOLEAN]
    BY <2>2, <2>3
  <2>5. [Now EXCEPT !.todo = Tail(@)] \in PrintFrame
    BY <2>4 DEF PrintFrame
  <2> QED BY <2>1, <2>2, <2>5
<1>5. CASE UNCHANGED <<printing, base>>
  BY <1>5 DEF BaseInv, Nested, Borrowed
<1>6. ASSUME NEW k \in Kw, Turn(k), printing' = Advance
      PROVE  BaseInv'
  BY <1>1, <1>4, <1>6, TopGoesOn DEF Advance
<1>7. ASSUME NEW k \in Kw, PrintElements(k)
      PROVE  BaseInv'
  <2>1. /\ Turn(k) /\ k \in marks[Now.sec] /\ Schema[Now.sec][k].type = "VSEC"
        /\ base[Now.sec] # Wild
    BY <1>7 DEF PrintElements, Reached, Shown, It_, Address
  <2> DEFINE c == Schema[Now.sec][k].child
             f == [Now EXCEPT !.todo = Tail(@)]
             g == VecPrint(c, base[Now.sec], k)
  <2>2. printing' = Advance \/ printing' = Append(Append(Outer, f), g)
    BY <1>7 DEF PrintElements, It_, Advance
  <2>3. k \in DOMAIN Schema[Now.sec] /\ c \in Section
    BY <1>3, <2>1, ParserAssumption DEF MarksRegistered
  <2>4. Owns(Now.sec, k, c)
    BY <2>1, <2>3 DEF Owns
  <2>5. Age[Now.sec] < Age[c]
    BY <1>3, <2>3, <2>4, AgeFacts DEF Older
  <2>6. g \in PrintFrame /\ g.call = "vec" /\ g.sec = c
    <3>1. base[Now.sec] \in Path /\ base[c] \in Base
      BY <1>3, <2>1, <2>3 DEF Base
    <3> QED BY <2>3, <3>1 DEF VecPrint, PrintFrame
  <2>7. f \in PrintFrame /\ f.call = Now.call /\ f.sec = Now.sec /\ base' = base /\ Now.call = "sec"
    BY <1>4, <2>1 DEF Turn
  <2> HIDE DEF f, g, c
  <2>8. CASE printing' = Append(Append(Outer, f), g)
    BY <1>1, <1>3, <2>5, <2>6, <2>7, <2>8, TopCalls
  <2> QED BY <1>6, <2>1, <2>2, <2>8
<1>8. CASE SecPrinted
  <2>1. /\ Now.call = "sec" /\ printing' = Outer
        /\ base' = IF Outer = <<>> THEN base
                   ELSE LET f == printing[Len(Outer)] IN [base EXCEPT ![f.sec] = f.old]
    BY <1>8 DEF SecPrinted, PutBack
  <2>2. Outer \in Seq(PrintFrame) /\ Len(Outer) = n - 1
    BY <1>1, <1>2, NowFacts
  <2>3. CASE n = 1
    <3>1. base' = base
      BY <2>1, <2>2, <2>3
    <3>2. base' \in [Section -> Base] /\ ~(Len(printing) > 1)
          /\ \A s \in Section : base'[s] = base[s]
      BY <1>2, <1>3, <2>3, <3>1
    <3> QED BY <1>1, <2>1, <3>2, TopReturns
  <2>4. CASE n > 1
    <3>1. PICK f : f = printing[n - 1]
      OBVIOUS
    <3>2. base' = [base EXCEPT ![f.sec] = f.old]
      <4>1. Outer # <<>> /\ printing[Len(Outer)] = f
        BY <1>3, <2>2, <2>4, <3>1
      <4> QED BY <2>1, <4>1
    <3>3. f.call = "vec" /\ f.old = Base0[f.sec] /\ f.sec \in Section
      <4>1. f.call = "vec" /\ n - 1 \in 1..(n - 1) /\ n - 1 \in 1..n
        BY <1>3, <2>1, <2>4, <3>1 DEF Nested
      <4> QED BY <1>1, <1>2, <3>1, <4>1, NowFacts DEF BaseInv
    <3>4. base' \in [Section -> Base] /\ base'[f.sec] = Base0[f.sec]
          /\ \A s \in Section : s # f.sec => base'[s] = base[s]
      <4>1. Base0[f.sec] \in Base
        BY <3>3, PrinterAssumption DEF Base
      <4> QED BY <1>3, <3>2, <3>3, <4>1
    <3>5. \A s \in Section : base'[s] = base[s] \/ base'[s] = Base0[s]
      BY <3>4
    <3> QED BY <1>1, <1>2, <2>1, <2>4, <3>1, <3>4, <3>5, TopReturns
  <2> QED BY <1>3, <2>3, <2>4
<1>9. CASE PrintElement
  <2>1. /\ Now.call = "vec"
        /\ base' = [base EXCEPT ![Now.sec] = Append(Now.obj, <<Now.kw, Now.next>>)]
        /\ printing' = Outer \o <<[Now EXCEPT !.next = Now.next + 1, !.old = base[Now.sec]],
                                  SecPrint(Now.sec, ItemOrder[Now.sec])>>
    BY <1>9 DEF PrintElement, InVector, Following
  <2>2. Now \in [call : {"vec"}, sec : Section, obj : Path, kw : Kw, next : Nat, old : Base]
    BY <1>3, <2>1 DEF PrintFrame
  <2> DEFINE f == [Now EXCEPT !.next = Now.next + 1, !.old = base[Now.sec]]
             g == SecPrint(Now.sec, ItemOrder[Now.sec])
  <2>3. f \in PrintFrame /\ f.call = "vec" /\ f.sec = Now.sec /\ f.old = base[Now.sec]
    <3>1. Now.next + 1 \in Nat /\ base[Now.sec] \in Base
      BY <1>3, <2>2
    <3> QED BY <2>2, <3>1 DEF PrintFrame
  <2>4. g \in PrintFrame /\ g.call = "sec" /\ g.sec = Now.sec
    <3>1. ItemOrder[Now.sec] \in Seq(Kw)
      BY <1>3, LayoutAssumption
    <3> QED BY <1>3, <3>1 DEF SecPrint, PrintFrame
  <2> HIDE DEF f, g
  <2>5. printing' = Append(Append(Outer, f), g)
    <3>1. Outer \in Seq(PrintFrame)
      BY <1>1, <1>2, NowFacts
    <3>2. printing' = Outer \o <<f, g>>
      BY <2>1 DEF f, g
    <3> QED BY <2>3, <2>4, <3>1, <3>2
  <2>6. base[Now.sec] = Base0[Now.sec]
    <3> SUFFICES ASSUME NEW i \in 1..(n - 1), printing[i].sec = Now.sec
                 PROVE  FALSE
      BY <1>2, <1>3 DEF BaseInv, Borrowed
    <3>1. Age[printing[i].sec] < Age[Now.sec] /\ Age[Now.sec] \in Nat
      BY <1>3, <2>1, AgesAreNumbers DEF Nested
    <3> QED BY <3>1
  <2>7. /\ base' \in [Section -> Base]
        /\ \A s \in Section : s # Now.sec => base'[s] = base[s]
    <3>1. Append(Now.obj, <<Now.kw, Now.next>>) \in Base
      BY <2>2, PathAppend DEF Base
    <3> QED BY <1>3, <2>1, <3>1
  <2> QED BY <1>1, <2>1, <2>3, <2>4, <2>5, <2>6, <2>7, TopCalls
<1>10. CASE VecPrinted
  <2>1. Now.call = "vec" /\ printing' = Outer /\ base' = base
    BY <1>10 DEF VecPrinted, InVector
  <2>2. n > 1 => printing[n - 1].call # "vec"
    BY <1>3, <2>1 DEF Nested
  <2>3. base' \in [Section -> Base] /\ \A s \in Section : base'[s] = base[s]
    BY <1>3, <2>1
  <2> QED BY <1>1, <1>2, <2>1, <2>2, <2>3, TopReturns
<1>11. ASSUME NEW k \in Kw, SkipUnparsed(k) \/ PrintValue(k) \/ PrintUser(k)
       PROVE  BaseInv'
  BY <1>6, <1>11 DEF SkipUnparsed, PrintValue, PrintUser, Reached
<1>12. ASSUME NEW k \in Kw, PrintWild(k) \/ PrintSection(k)
       PROVE  BaseInv'
  BY <1>4, <1>5, <1>6, <1>12 DEF PrintWild, PrintSection, Reached
<1> QED BY <1>7, <1>8, <1>9, <1>10, <1>11, <1>12 DEF PrStep

(* A call by the program *)
LEMMA PrintingBegins ==
  ASSUME BaseInv, PrBegin
  PROVE  BaseInv'
<1>1. PICK s \in Section, todo \in Seq(Kw) : Begin(s, todo)
  <2>1. ASSUME NEW s \in Section
        PROVE  ItemOrder[s] \in Seq(Kw) /\ \A k \in Kw : <<k>> \in Seq(Kw)
    BY LayoutAssumption
  <2>2. Top \in Section
    BY ParserAssumption
  <2>3. CASE PrintAll
    BY <2>1, <2>2, <2>3 DEF PrintAll
  <2>4. ASSUME NEW s \in Section, PrintSec(s) \/ \E k \in Kw : PrintByKey(s, k)
        PROVE  \E t \in Section, todo \in Seq(Kw) : Begin(t, todo)
    BY <2>1, <2>4 DEF PrintSec, PrintByKey
  <2> QED BY <2>3, <2>4 DEF PrBegin
<1>2. /\ printing = <<>> /\ base' = base
      /\ printing' = <<SecPrint(s, todo)>> \/ printing' = printing
  BY <1>1 DEF Begin, MayPrint, Idle
<1>3. CASE printing' = printing
  BY <1>2, <1>3 DEF BaseInv, Nested, Borrowed
<1>4. CASE printing' = <<SecPrint(s, todo)>>
  <2>1. SecPrint(s, todo) \in PrintFrame
    BY DEF SecPrint, PrintFrame
  <2>2. printing' \in Seq(PrintFrame) /\ Len(printing') = 1 /\ printing'[1] = SecPrint(s, todo)
    BY <1>4, <2>1
  <2>3. Nested(1)'
    <3>1. printing'[1].call = "sec" /\ Age[printing'[1].sec] \in Nat
      BY <2>2, AgesAreNumbers DEF SecPrint
    <3> QED BY <3>1 DEF Nested
  <2>4. \A t \in Section : base'[t] = Base0[t]
    <3>1. Len(printing) = 0
      BY <1>2
    <3>2. \A t \in Section : ~Borrowed(t)
      BY <3>1 DEF Borrowed
    <3> QED BY <1>2, <3>2 DEF BaseInv
  <2>5. base' \in [Section -> Base]
    BY <1>2 DEF BaseInv
  <2> QED BY <2>2, <2>3, <2>4, <2>5 DEF BaseInv
<1> QED BY <1>2, <1>3, <1>4

-----------------------------------------------------------------------------
(* What is shown *)

ParsedExact == ParserInv /\ VectorsOK /\ MarksExact /\ MarksRegistered

(* A value that scapar_print has to show *)
PrintedTypes == {"SCALAR", "VEC", "VVEC", "TABLE", "VTAB"}
Due(o, k) ==
  /\ AllLast(o) /\ Given(o, k)
  /\ \E s \in Section : Leads(o, s) /\ k \in DOMAIN Schema[s] /\ Schema[s][k].type \in PrintedTypes

(* The i-th call in progress is still to come to keyword k of object o.    *)
Pending(i, o, k) ==
  LET f == printing[i] IN
  \/ /\ f.call = "sec"
     /\ \E x \in 1..Len(f.todo) :
          \/ o = base[f.sec] /\ k = f.todo[x]
          \/ \E n \in Nat : Below_(o, base[f.sec], f.todo[x], n)
  \/ /\ f.call = "vec"
     /\ \E n \in Nat : n >= f.next /\ Below_(o, f.obj, f.kw, n)

(* The base address of a section is an object of it.  The elements of a    *)
(* vector are those of the section that is being printed below.            *)
Placed(i) ==
  LET f == printing[i] IN
  /\ f.call = "sec" => base[f.sec] \in Path /\ Leads(base[f.sec], f.sec)
  /\ f.call = "vec" =>
       LET s == printing[i - 1].sec IN
       /\ f.obj = base[s] /\ f.kw \in DOMAIN Schema[s] /\ f.next > 0
       /\ Schema[s][f.kw].type = "VSEC" /\ Schema[s][f.kw].child = f.sec

OnlyGiven == \A v \in shown : AllLast(v[1]) => Given(v[1], v[2])
NothingPassed ==
  \A o \in Path, k \in Kw :
    Due(o, k) => <<o, k>> \in shown \/ \E i \in 1..Len(printing) : Pending(i, o, k)

ShownInv ==
  /\ printing = <<>> => shown = {}
  /\ printing # <<>> => Between
  /\ printing # <<>> /\ printing[1].sec = Top =>
       /\ \A i \in 1..Len(printing) : Placed(i)
       /\ OnlyGiven
       /\ printing[1].all => NothingPassed

-----------------------------------------------------------------------------
(* What is last in every vector is newest when nothing is being parsed.    *)
LEMMA LastIsNewest ==
  ASSUME stack = <<>>, NEW o, AllLast(o)
  PROVE  Newest(o)
<1>1. \A p, k : ~Building(p, k)
  BY DEF Building
<1> QED BY <1>1 DEF AllLast, Newest, Latest

(* In such an object the marks are right. *)
LEMMA LastMarked ==
  ASSUME ParsedExact, Between, NEW o \in Path, NEW s \in Section, Leads(o, s), AllLast(o),
         NEW k \in DOMAIN Schema[s], Schema[s][k].type # "SEC"
  PROVE  k \in marks[s] <=> Given(o, k)
<1>1. stack = <<>>
  BY DEF ParsedExact, ParserInv, FrameInv, StackOK
<1>2. Newest(o)
  BY <1>1, LastIsNewest
<1> QED BY <1>2 DEF ParsedExact, MarksExact

(* What is below an object in something last, is in the last element of a  *)
(* vector of it.                                                           *)
LEMMA LastBelow ==
  ASSUME ParsedExact, NEW o \in Path, NEW t \in Section, Leads(o, t), AllLast(o),
         NEW p \in Path, NEW s \in Section, Leads(p, s), NEW l, NEW n, Below_(o, p, l, n)
  PROVE  /\ l \in DOMAIN Schema[s] /\ Schema[s][l].type = "VSEC" /\ AllLast(p)
         /\ n \in Nat /\ n > 0 /\ n = Cardinality(Entries(p, l))
         /\ Given(p, l) /\ <<p, l>> \in inited
<1>1. /\ Len(p) \in Nat /\ Len(o) \in Nat /\ Len(p) + 1 \in 1..Len(o) /\ Len(p) + 1 \in DOMAIN o
      /\ SubSeq(o, 1, Len(p)) = p /\ n \in Nat /\ l \in Kw
      /\ o[Len(p) + 1][1] = l /\ o[Len(p) + 1][2] = n /\ (Len(p) + 1) - 1 = Len(p)
  <2>1. Len(p) \in Nat /\ o[Len(p) + 1] = <<l, n>>
    BY PartFacts
  <2>2. (Len(p) + 1) - 1 = Len(p)
    BY <2>1
  <2> QED BY <2>1, <2>2, PartFacts
<1>2. n > 0 /\ n = Cardinality(Entries(p, l))
  BY <1>1 DEF AllLast
<1>3. l \in DOMAIN Schema[s] /\ Schema[s][l].type = "VSEC"
  <2>1. n # 0
    BY <1>1, <1>2
  <2> QED BY <2>1, LeadsThrough, ZenonT(60)
<1>4. AllLast(p)
  <2> SUFFICES ASSUME NEW j \in DOMAIN p
               PROVE  p[j][2] > 0 /\ p[j][2] = Cardinality(Entries(SubSeq(p, 1, j - 1), p[j][1]))
    BY DEF AllLast
  <2>1. j \in 1..Len(p) /\ j \in DOMAIN o /\ o[j] = p[j] /\ j - 1 \in 0..Len(p)
    <3>1. j \in 1..Len(p) /\ o \in Seq(Kw \X Nat)
      BY DEF Path
    <3> QED BY <1>1, <3>1 DEF Below_
  <2>2. SubSeq(o, 1, j - 1) = SubSeq(p, 1, j - 1)
    <3>1. o \in Seq(Kw \X Nat) /\ p \in Seq(Kw \X Nat)
      BY DEF Path
    <3>2. PICK m \in Nat : m = j - 1 /\ m <= Len(p) /\ m <= Len(o)
      BY <1>1, <2>1
    <3>3. \A x \in 1..m : x \in 1..Len(p) /\ o[x] = p[x]
      BY <1>1, <3>2 DEF Below_
    <3>4. /\ SubSeq(o, 1, m) \in Seq(Kw \X Nat) /\ Len(SubSeq(o, 1, m)) = m
          /\ \A x \in 1..m : SubSeq(o, 1, m)[x] = o[x]
          /\ SubSeq(p, 1, m) \in Seq(Kw \X Nat) /\ Len(SubSeq(p, 1, m)) = m
          /\ \A x \in 1..m : SubSeq(p, 1, m)[x] = p[x]
      <4>1. \A S : \A q \in Seq(S) : m <= Len(q) =>
              /\ SubSeq(q, 1, m) \in Seq(S) /\ Len(SubSeq(q, 1, m)) = m
              /\ \A x \in 1..m : SubSeq(q, 1, m)[x] = q[x]
        OBVIOUS
      <4> QED BY <3>1, <3>2, <4>1
    <3>5. \A x \in 1..m : SubSeq(o, 1, m)[x] = SubSeq(p, 1, m)[x]
      BY <3>3, <3>4
    <3>6. SubSeq(o, 1, m) = SubSeq(p, 1, m)
      BY <3>4, <3>5, SeqEqual
    <3> QED BY <3>2, <3>6
  <2>3. o[j][2] > 0 /\ o[j][2] = Cardinality(Entries(SubSeq(o, 1, j - 1), o[j][1]))
    BY <2>1 DEF AllLast
  <2> QED BY <2>1, <2>2, <2>3
<1>5. Entries(p, l) # {}
  BY <1>2, FS_EmptySet
<1>6. PICK e \in data : e.obj = p /\ e.kw = l
  BY <1>5 DEF Entries
<1>7. e \in Entry /\ EntryOK(e)
  BY DEF ParsedExact, ParserInv, FrameInv, TypeOK, OnceOK
<1>8. e.type = "VSEC"
  BY <1>3, <1>6, <1>7, EntryOf
<1>9. <<p, l>> \in inited
  BY <1>6, <1>8 DEF ParsedExact, VectorsOK, OpensElement
<1> QED BY <1>1, <1>2, <1>3, <1>4, <1>9 DEF Given

(* Nothing but the printing changes. *)
LEMMA SameParse ==
  ASSUME UNCHANGED vars
  PROVE  /\ \A o, k : Given(o, k)' <=> Given(o, k)
         /\ \A o : AllLast(o)' <=> AllLast(o)
         /\ \A o, k : Due(o, k)' <=> Due(o, k)
         /\ Between' <=> Between
<1>1. \A o, k : Entries(o, k)' = Entries(o, k)
  BY DEF vars, Entries
<1>2. \A o, k : Given(o, k)' <=> Given(o, k)
  BY <1>1 DEF vars, Given
<1>3. \A o : AllLast(o)' <=> AllLast(o)
  BY <1>1 DEF AllLast
<1> QED BY <1>2, <1>3 DEF Due, Between, vars

(* A call below the innermost one is where it was. *)
LEMMA LowerCallStays ==
  ASSUME NEW j, printing'[j] = printing[j],
         printing[j].call = "sec" => base'[printing[j].sec] = base[printing[j].sec]
  PROVE  \A o, k : Pending(j, o, k) => Pending(j, o, k)'
BY DEF Pending

LEMMA TurnFacts ==
  ASSUME BaseInv, NEW k, Turn(k), NEW n, n = Len(printing)
  PROVE  /\ n \in Nat \ {0} /\ n \in 1..n /\ Now = printing[n] /\ Now.call = "sec"
         /\ Now.sec \in Section /\ Now.todo # <<>> /\ printing # <<>> /\ k \in Kw
         /\ [Now EXCEPT !.todo = Tail(@)] \in PrintFrame
         /\ [Now EXCEPT !.todo = Tail(@)].sec = Now.sec
         /\ Advance \in Seq(PrintFrame) /\ Len(Advance) = n
         /\ \A i \in 1..(n - 1) : Advance[i] = printing[i]
         /\ Advance[n] = [Now EXCEPT !.todo = Tail(@)]
         /\ UNCHANGED <<vars, base>>
<1>1. /\ Now.call = "sec" /\ Now.todo # <<>> /\ printing # <<>> /\ k = Head(Now.todo)
      /\ UNCHANGED <<vars, base>>
  BY DEF Turn
<1>2. n \in Nat \ {0} /\ Now = printing[n] /\ Now \in PrintFrame /\ n \in 1..n
  <2>1. n \in Nat \ {0} /\ Now = printing[n] /\ Now \in PrintFrame
    BY <1>1, NowFacts
  <2> QED BY <2>1
<1>3. Now \in [call : {"sec"}, sec : Section, todo : Seq(Kw), all : BOOLEAN]
  BY <1>1, <1>2 DEF PrintFrame
<1>4. Head(Now.todo) \in Kw /\ Tail(Now.todo) \in Seq(Kw) /\ Now.sec \in Section
  BY <1>1, <1>3
<1> DEFINE f == [Now EXCEPT !.todo = Tail(@)]
<1>5. f \in [call : {"sec"}, sec : Section, todo : Seq(Kw), all : BOOLEAN] /\ f.sec = Now.sec
  BY <1>3, <1>4
<1>6. f \in PrintFrame
  BY <1>5 DEF PrintFrame
<1> HIDE DEF f
<1>7. /\ Append(Outer, f) \in Seq(PrintFrame) /\ Len(Append(Outer, f)) = n
      /\ \A i \in 1..(n - 1) : Append(Outer, f)[i] = printing[i]
      /\ Append(Outer, f)[n] = f
  BY <1>1, <1>6, ReplaceTop
<1>8. Advance = Append(Outer, f)
  BY DEF Advance, f
<1> QED BY <1>1, <1>2, <1>4, <1>5, <1>6, <1>7, <1>8 DEF f

(* What a step that takes a keyword from the list must do for it. *)
LEMMA TurnKeeps ==
  ASSUME BaseInv, ShownInv, NEW CONSTANT k0 \in Kw, Turn(k0), printing[1].sec = Top,
         NEW CONSTANT n, n = Len(printing), NEW CONSTANT m, m \in {n, n + 1}, Len(printing') = m,
         \A i \in 1..(n - 1) : printing'[i] = printing[i],
         printing'[n] = Advance[n],
         shown \subseteq shown',
         \A v \in shown' : v \in shown \/ (AllLast(v[1]) => Given(v[1], v[2])),
         m = n + 1 => Placed(m)',
         \A o \in Path, k \in Kw :
           /\ Due(o, k)
           /\ \/ o = base[Now.sec] /\ k = k0
              \/ \E r \in Nat : Below_(o, base[Now.sec], k0, r)
           => <<o, k>> \in shown' \/ (m = n + 1 /\ Pending(m, o, k)')
  PROVE  ShownInv'
<1>1. /\ UNCHANGED <<vars, base>> /\ Now.call = "sec" /\ Now.todo # <<>> /\ k0 = Head(Now.todo)
      /\ printing # <<>>
  BY DEF Turn
<1>2. /\ n \in Nat \ {0} /\ Now = printing[n] /\ Now \in PrintFrame
      /\ \A i \in 1..n : printing[i] \in PrintFrame
      /\ n \in 1..n /\ 1 \in 1..n /\ \A i \in 1..n : i \in 1..(n - 1) \/ i = n
  <2>1. /\ n \in Nat \ {0} /\ Now = printing[n] /\ Now \in PrintFrame
        /\ \A i \in 1..n : printing[i] \in PrintFrame
    BY <1>1, NowFacts
  <2> QED BY <2>1
<1>3. /\ Now \in [call : {"sec"}, sec : Section, todo : Seq(Kw), all : BOOLEAN]
      /\ Now.todo \in Seq(Kw)
  BY <1>1, <1>2 DEF PrintFrame
<1> DEFINE f == [Now EXCEPT !.todo = Tail(Now.todo)]
<1>4. /\ printing'[n] = f /\ f.call = "sec" /\ f.sec = Now.sec /\ f.all = Now.all
      /\ f.todo = Tail(Now.todo)
  <2>1. Advance[n] = [Now EXCEPT !.todo = Tail(@)]
    BY TurnFacts
  <2> QED BY <1>3, <2>1
<1> HIDE DEF f
<1>5. /\ Len(f.todo) \in Nat /\ \A x \in 1..Len(Now.todo) : x = 1 \/ x - 1 \in 1..Len(f.todo)
      /\ \A x \in 1..Len(f.todo) : f.todo[x] = Now.todo[x + 1]
      /\ Now.todo[1] = k0
  BY <1>1, <1>3, <1>4
<1>6. \A i \in 1..n : /\ printing'[i].call = printing[i].call
                      /\ printing'[i].sec = printing[i].sec
                      /\ printing[i].call = "vec" => printing'[i] = printing[i]
                      /\ printing[i].call = "sec" => printing'[i].all = printing[i].all
  BY <1>1, <1>2, <1>4
<1>7. printing[1].call = "sec"
  BY <1>2 DEF BaseInv, Nested, PrintFrame
<1>8. /\ \A i \in 1..n : Placed(i)
      /\ OnlyGiven /\ (printing[1].all => NothingPassed) /\ Between
  BY <1>1 DEF ShownInv
<1>9. ASSUME NEW i \in 1..n
      PROVE  Placed(i)'
  <2>1. printing[i].call \in {"sec", "vec"} /\ Placed(i)
    BY <1>2, <1>8 DEF PrintFrame
  <2>2. CASE printing[i].call = "sec"
    BY <1>1, <1>6, <2>1, <2>2 DEF Placed
  <2>3. CASE printing[i].call = "vec"
    <3>1. i > 1
      BY <2>3 DEF BaseInv, Nested
    <3>2. i - 1 \in 1..n
      BY <1>2, <3>1
    <3> QED BY <1>1, <1>6, <2>1, <2>3, <3>2 DEF Placed
  <2> QED BY <2>1, <2>2, <2>3
<1>10. \A i \in 1..m : Placed(i)'
  <2>1. \A i \in 1..m : i \in 1..n \/ (i = m /\ m = n + 1)
    BY <1>2
  <2> QED BY <1>9, <2>1
<1>11. OnlyGiven'
  BY <1>1, <1>8, SameParse DEF OnlyGiven
<1>12. ASSUME printing[1].all, NEW CONSTANT o \in Path, NEW CONSTANT k \in Kw, Due(o, k)
       PROVE  <<o, k>> \in shown' \/ \E i \in 1..m : Pending(i, o, k)'
  <2>1. CASE <<o, k>> \in shown
    BY <2>1
  <2>2. ASSUME NEW i \in 1..(n - 1), Pending(i, o, k)
        PROVE  \E j \in 1..m : Pending(j, o, k)'
    <3>1. i \in 1..m
      BY <1>2
    <3> QED BY <1>1, <2>2, <3>1, LowerCallStays
  <2>3. CASE Pending(n, o, k)
    <3>1. PICK x \in 1..Len(Now.todo) :
            \/ o = base[Now.sec] /\ k = Now.todo[x]
            \/ \E r \in Nat : Below_(o, base[Now.sec], Now.todo[x], r)
      BY <1>1, <1>2, <2>3 DEF Pending
    <3>2. CASE x = 1
      <4>1. (o = base[Now.sec] /\ k = k0) \/ \E r \in Nat : Below_(o, base[Now.sec], k0, r)
        BY <1>5, <3>1, <3>2
      <4>2. <<o, k>> \in shown' \/ (m = n + 1 /\ Pending(m, o, k)')
        BY <1>12, <4>1
      <4>3. m \in 1..m
        BY <1>2
      <4> QED BY <4>2, <4>3
    <3>3. CASE x # 1
      <4>1. PICK y \in 1..Len(f.todo) : y = x - 1 /\ f.todo[y] = Now.todo[x]
        BY <1>5, <3>1, <3>3
      <4>2. Pending(n, o, k)'
        BY <1>1, <1>4, <3>1, <4>1 DEF Pending
      <4>3. n \in 1..m
        BY <1>2
      <4> QED BY <4>2, <4>3
    <3> QED BY <3>2, <3>3
  <2>4. <<o, k>> \in shown \/ \E i \in 1..n : Pending(i, o, k)
    BY <1>8, <1>12 DEF NothingPassed
  <2> QED BY <1>2, <2>1, <2>2, <2>3, <2>4
<1>13. printing'[1].all => NothingPassed'
  <2>1. printing'[1].all = printing[1].all
    BY <1>2, <1>6, <1>7
  <2> QED BY <1>1, <1>12, <2>1, SameParse DEF NothingPassed
<1>14. printing' # <<>>
  BY <1>2
<1> QED BY <1>1, <1>8, <1>10, <1>11, <1>13, <1>14, SameParse DEF ShownInv

(* The section whose turn it is *)
LEMMA TurnPlaced ==
  ASSUME BaseInv, ShownInv, ParsedExact, NEW k, Turn(k), printing[1].sec = Top
  PROVE  /\ base[Now.sec] \in Path /\ Leads(base[Now.sec], Now.sec)
         /\ AllLast(base[Now.sec]) /\ k \in DOMAIN Schema[Now.sec] /\ Schema[Now.sec][k].type # "SEC" =>
              (k \in marks[Now.sec] <=> Given(base[Now.sec], k))
         /\ \A l \in Kw : Due(base[Now.sec], l) =>
              l \in DOMAIN Schema[Now.sec] /\ Schema[Now.sec][l].type \in PrintedTypes
         /\ \A o \in Path, l \in Kw, r \in Nat : Due(o, l) /\ Below_(o, base[Now.sec], k, r) =>
              /\ k \in DOMAIN Schema[Now.sec] /\ Schema[Now.sec][k].type = "VSEC"
              /\ AllLast(base[Now.sec]) /\ Given(base[Now.sec], k) /\ r > 0
              /\ <<base[Now.sec], k>> \in inited
<1>1. PICK n : n = Len(printing)
  OBVIOUS
<1>2. /\ n \in 1..n /\ Now = printing[n] /\ Now.call = "sec" /\ Now.sec \in Section
      /\ printing # <<>>
  BY <1>1, TurnFacts
<1>3. base[Now.sec] \in Path /\ Leads(base[Now.sec], Now.sec) /\ Between
  BY <1>1, <1>2 DEF ShownInv, Placed
<1>4. \A l \in Kw : Due(base[Now.sec], l) =>
        l \in DOMAIN Schema[Now.sec] /\ Schema[Now.sec][l].type \in PrintedTypes
  BY <1>2, <1>3, LeadsOnce DEF Due
<1>5. ASSUME NEW o \in Path, NEW l \in Kw, NEW r \in Nat, Due(o, l), Below_(o, base[Now.sec], k, r)
      PROVE  /\ k \in DOMAIN Schema[Now.sec] /\ Schema[Now.sec][k].type = "VSEC"
             /\ AllLast(base[Now.sec]) /\ Given(base[Now.sec], k) /\ r > 0
             /\ <<base[Now.sec], k>> \in inited
  <2>1. PICK t \in Section : Leads(o, t) /\ AllLast(o)
    BY <1>5 DEF Due
  <2> QED BY <1>2, <1>3, <1>5, <2>1, LastBelow
<1>6. AllLast(base[Now.sec]) /\ k \in DOMAIN Schema[Now.sec] /\ Schema[Now.sec][k].type # "SEC" =>
        (k \in marks[Now.sec] <=> Given(base[Now.sec], k))
  BY <1>2, <1>3, LastMarked
<1> QED BY <1>3, <1>4, <1>5, <1>6

LEMMA PrintItemKeeps ==
  ASSUME BaseInv, ShownInv, ParsedExact, printing[1].sec = Top, NEW CONSTANT k0 \in Kw, printing' = Advance,
         SkipUnparsed(k0) \/ PrintValue(k0) \/ PrintUser(k0) \/ PrintSection(k0)
  PROVE  ShownInv'
<1>1. Turn(k0)
  BY DEF SkipUnparsed, PrintValue, PrintUser, PrintSection, Reached
<1>2. PICK n : n = Len(printing)
  OBVIOUS
<1>3. /\ n \in Nat \ {0} /\ Len(printing') = n /\ Now.sec \in Section
      /\ \A i \in 1..(n - 1) : printing'[i] = printing[i]
      /\ printing'[n] = Advance[n]
  BY <1>1, <1>2, TurnFacts
<1>4. PICK b, t, T : b = base[Now.sec] /\ t = Schema[Now.sec][k0].type /\ T = DOMAIN Schema[Now.sec]
  OBVIOUS
<1>5. PICK w : w = <<b, k0>>
  OBVIOUS
<1>11. /\ shown \subseteq shown'
       /\ \A v \in shown' : v \in shown \/ (v = w /\ k0 \in marks[Now.sec] /\ t # "SEC")
       /\ k0 \in marks[Now.sec] => t # "VSEC"
       /\ k0 \in marks[Now.sec] /\ t \in PrintedTypes => w \in shown'
  BY <1>4, <1>5 DEF SkipUnparsed, PrintValue, PrintUser, PrintSection, Reached, Shown, It_, PrintedTypes
<1>6. k0 \in marks[Now.sec] => k0 \in T
  BY <1>3, <1>4 DEF ParsedExact, MarksRegistered
<1>7. ASSUME NEW v \in shown', v \notin shown, AllLast(v[1])
      PROVE  Given(v[1], v[2])
  <2>1. v = w /\ k0 \in marks[Now.sec] /\ t # "SEC"
    BY <1>7, <1>11
  <2>2. v[1] = b /\ v[2] = k0
    BY <1>5, <2>1
  <2> QED BY <1>1, <1>4, <1>6, <1>7, <2>1, <2>2, TurnPlaced
<1>8. ASSUME NEW o \in Path, NEW k \in Kw, Due(o, k),
             (o = b /\ k = k0) \/ \E r \in Nat : Below_(o, b, k0, r)
      PROVE  <<o, k>> \in shown'
  <2>1. CASE o = b /\ k = k0
    <3>1. k0 \in T /\ t \in PrintedTypes /\ AllLast(b) /\ Given(b, k0)
      BY <1>1, <1>4, <1>8, <2>1, TurnPlaced DEF Due
    <3>2. k0 \in marks[Now.sec]
      BY <1>1, <1>4, <3>1, TurnPlaced DEF PrintedTypes
    <3> QED BY <1>5, <1>11, <2>1, <3>1, <3>2
  <2>2. ASSUME NEW r \in Nat, Below_(o, b, k0, r)
        PROVE  FALSE
    <3>1. k0 \in T /\ t = "VSEC" /\ AllLast(b) /\ Given(b, k0)
      BY <1>1, <1>4, <1>8, <2>2, TurnPlaced
    <3>2. k0 \in marks[Now.sec]
      BY <1>1, <1>4, <3>1, TurnPlaced
    <3> QED BY <1>11, <3>1, <3>2
  <2> QED BY <1>8, <2>1, <2>2
<1>9. \A v \in shown' : v \in shown \/ (AllLast(v[1]) => Given(v[1], v[2]))
  BY <1>7
<1>10. n # n + 1
  BY <1>3
<1> QED BY <1>1, <1>2, <1>3, <1>4, <1>8, <1>9, <1>10, <1>11, TurnKeeps

LEMMA PrintVectorKeeps ==
  ASSUME BaseInv, ShownInv, ParsedExact, printing[1].sec = Top, NEW CONSTANT k0 \in Kw, PrintElements(k0)
  PROVE  ShownInv'
<1>1. Turn(k0) /\ k0 \in marks[Now.sec] /\ Schema[Now.sec][k0].type = "VSEC" /\ shown' = shown
  BY DEF PrintElements, Reached, Shown, It_
<1>2. PICK n : n = Len(printing)
  OBVIOUS
<1>3. /\ n \in Nat \ {0} /\ Now = printing[n] /\ Now.sec \in Section
      /\ Advance \in Seq(PrintFrame) /\ Len(Advance) = n
      /\ \A i \in 1..(n - 1) : Advance[i] = printing[i]
      /\ Advance[n].sec = Now.sec /\ base' = base
  BY <1>1, <1>2, TurnFacts
<1>4. PICK b, c : b = base[Now.sec] /\ c = Schema[Now.sec][k0].child
  OBVIOUS
<1>5. k0 \in DOMAIN Schema[Now.sec] /\ c \in Section /\ b \in Path
  <2>1. k0 \in DOMAIN Schema[Now.sec]
    BY <1>1, <1>3 DEF ParsedExact, MarksRegistered
  <2> QED BY <1>1, <1>3, <1>4, <2>1, ParserAssumption, TurnPlaced
<1>6. PICK g : g = VecPrint(c, b, k0)
  OBVIOUS
<1>7. g.call = "vec" /\ g.sec = c /\ g.obj = b /\ g.kw = k0 /\ g.next = 1
  BY <1>6 DEF VecPrint
<1>8. printing' = IF <<b, k0>> \in inited THEN Append(Advance, g) ELSE Advance
  BY <1>4, <1>6 DEF PrintElements, It_
<1>9. ASSUME NEW CONSTANT o \in Path, NEW CONSTANT k \in Kw, Due(o, k),
             (o = b /\ k = k0) \/ \E r \in Nat : Below_(o, b, k0, r)
      PROVE  <<b, k0>> \in inited /\ \E r \in Nat : r >= 1 /\ Below_(o, b, k0, r)
  <2>1. ~(o = b /\ k = k0)
    BY <1>1, <1>4, <1>9, TurnPlaced DEF PrintedTypes
  <2>2. PICK r \in Nat : Below_(o, b, k0, r)
    BY <1>9, <2>1
  <2>3. r > 0 /\ <<b, k0>> \in inited
    BY <1>1, <1>4, <1>9, <2>2, TurnPlaced
  <2> QED BY <2>2, <2>3
<1>10. CASE <<b, k0>> \notin inited
  <2>1. printing' = Advance
    BY <1>8, <1>10
  <2>2. /\ Len(printing') = n /\ n # n + 1
        /\ \A i \in 1..(n - 1) : printing'[i] = printing[i]
        /\ printing'[n] = Advance[n]
    BY <1>3, <2>1
  <2>3. \A o \in Path, k \in Kw :
          ~(/\ Due(o, k)
            /\ \/ o = base[Now.sec] /\ k = k0
               \/ \E r \in Nat : Below_(o, base[Now.sec], k0, r))
    BY <1>4, <1>9, <1>10
  <2>4. shown \subseteq shown' /\ \A v \in shown' : v \in shown
    BY <1>1
  <2> QED BY <1>1, <1>2, <2>2, <2>3, <2>4, TurnKeeps
<1>11. CASE <<b, k0>> \in inited
  <2>1. PICK m : m = n + 1
    OBVIOUS
  <2>2. printing' = Append(Advance, g)
    BY <1>8, <1>11
  <2>3. /\ Len(printing') = m /\ \A i \in 1..n : printing'[i] = Advance[i]
        /\ printing'[m] = g /\ m # n /\ m - 1 = n /\ n \in 1..n
        /\ \A i \in 1..(n - 1) : i \in 1..n
    BY <1>3, <2>1, <2>2
  <2>4. /\ \A i \in 1..(n - 1) : printing'[i] = printing[i]
        /\ printing'[n] = Advance[n]
    BY <1>3, <2>3
  <2>5. Placed(m)'
    <3>1. printing'[m - 1].sec = Now.sec
      BY <1>3, <2>3, <2>4
    <3> QED BY <1>1, <1>3, <1>4, <1>5, <1>7, <2>3, <3>1 DEF Placed
  <2>6. ASSUME NEW CONSTANT o \in Path, NEW CONSTANT k \in Kw, Due(o, k),
               (o = b /\ k = k0) \/ \E r \in Nat : Below_(o, b, k0, r)
        PROVE  Pending(m, o, k)'
    <3>1. PICK r \in Nat : r >= 1 /\ Below_(o, b, k0, r)
      BY <1>9, <2>6
    <3> QED BY <1>7, <2>3, <3>1 DEF Pending
  <2>7. \A o \in Path, k \in Kw :
          /\ Due(o, k)
          /\ \/ o = base[Now.sec] /\ k = k0
             \/ \E r \in Nat : Below_(o, base[Now.sec], k0, r)
          => <<o, k>> \in shown' \/ (m = n + 1 /\ Pending(m, o, k)')
    BY <1>4, <2>1, <2>6
  <2>8. /\ shown \subseteq shown' /\ m \in {n, n + 1} /\ (m = n + 1 => Placed(m)')
        /\ \A v \in shown' : v \in shown \/ (AllLast(v[1]) => Given(v[1], v[2]))
    BY <1>1, <2>1, <2>5
  <2> QED BY <1>1, <1>2, <2>3, <2>4, <2>7, <2>8, TurnKeeps
<1> QED BY <1>10, <1>11

(* What is in an object of a section, or below it, is due when the section *)
(* is printed from its first keyword on.                                   *)
LEMMA DueIsListed ==
  ASSUME NEW q \in Path, NEW s \in Section, Leads(q, s), NEW o \in Path, NEW k \in Kw, Due(o, k),
         o = q \/ \E l \in Kw, r \in Nat : Below_(o, q, l, r)
  PROVE  \E x \in 1..Len(ItemOrder[s]) :
           \/ o = q /\ k = ItemOrder[s][x]
           \/ \E r \in Nat : Below_(o, q, ItemOrder[s][x], r)
<1>1. \A l \in DOMAIN Schema[s] : \E x \in 1..Len(ItemOrder[s]) : ItemOrder[s][x] = l
  BY ItemOrderFacts
<1>2. PICK t \in Section : Leads(o, t) /\ k \in DOMAIN Schema[t]
  BY DEF Due
<1>3. CASE o = q
  <2>1. t = s
    BY <1>2, <1>3, LeadsOnce
  <2> QED BY <1>1, <1>2, <1>3, <2>1
<1>4. ASSUME NEW l \in Kw, NEW r \in Nat, Below_(o, q, l, r)
      PROVE  \E x \in 1..Len(ItemOrder[s]) : \E z \in Nat : Below_(o, q, ItemOrder[s][x], z)
  <2>1. l \in DOMAIN Schema[s]
    BY <1>2, <1>4, LeadsThrough
  <2> QED BY <1>1, <1>4, <2>1
<1> QED BY <1>3, <1>4

(* What a step that shows nothing must do for what is pending. *)
LEMMA CallsKeep ==
  ASSUME ShownInv, UNCHANGED vars, shown' = shown, printing # <<>>, printing[1].sec = Top,
         NEW CONSTANT m \in Nat \ {0}, Len(printing') = m,
         printing'[1].all = printing[1].all,
         \A i \in 1..m : Placed(i)',
         \A o \in Path, k \in Kw : \A i \in 1..Len(printing) :
           Due(o, k) /\ Pending(i, o, k) => \E j \in 1..m : Pending(j, o, k)'
  PROVE  ShownInv'
<1>1. OnlyGiven /\ (printing[1].all => NothingPassed) /\ Between
  BY DEF ShownInv
<1>2. OnlyGiven'
  BY <1>1, SameParse DEF OnlyGiven
<1>3. printing'[1].all => NothingPassed'
  BY <1>1, SameParse DEF NothingPassed
<1>4. printing' # <<>>
  OBVIOUS
<1> QED BY <1>1, <1>2, <1>3, <1>4, SameParse DEF ShownInv

(* A call below the innermost one, whose section keeps its base address.   *)
LEMMA LowerPlaced ==
  ASSUME NEW CONSTANT i \in Nat \ {0}, Placed(i), Nested(i),
         \A j \in 1..i : printing'[j].sec = printing[j].sec,
         printing[i].call = "sec" =>
           printing'[i].call = "sec" /\ base'[printing[i].sec] = base[printing[i].sec],
         printing[i].call = "vec" =>
           /\ printing'[i].call = "vec" /\ printing'[i].obj = printing[i].obj
           /\ printing'[i].kw = printing[i].kw /\ printing'[i].next > 0
           /\ base'[printing[i - 1].sec] = base[printing[i - 1].sec],
         printing[i].call \in {"sec", "vec"}
  PROVE  Placed(i)'
<1>1. i \in 1..i
  OBVIOUS
<1>2. CASE printing[i].call = "sec"
  BY <1>1, <1>2 DEF Placed
<1>3. CASE printing[i].call = "vec"
  <2>1. i - 1 \in 1..i
    BY <1>3 DEF Nested
  <2> QED BY <1>1, <1>3, <2>1 DEF Placed
<1> QED BY <1>2, <1>3

(* Printing goes into ever younger sections, so that no section is that of *)
(* two vectors in progress.                                                *)
LEMMA VectorSectionIsNew ==
  ASSUME BaseInv, NEW i \in 1..Len(printing), printing[i].call = "vec",
         NEW j \in 1..(i - 1)
  PROVE  printing[j].sec # printing[i].sec
<1>1. j \in 1..Len(printing) /\ printing # <<>>
  BY DEF BaseInv
<1>2. Age[printing[i].sec] \in Nat /\ Age[printing[j].sec] \in Nat
  BY <1>1, NowFacts
<1>3. Age[printing[j].sec] < Age[printing[i].sec]
  BY DEF BaseInv, Nested
<1> QED BY <1>2, <1>3

LEMMA VectorReturnKeeps ==
  ASSUME BaseInv, ShownInv, ParsedExact, printing[1].sec = Top, VecPrinted
  PROVE  ShownInv'
<1>1. PICK n : n = Len(printing)
  OBVIOUS
<1>2. /\ printing # <<>> /\ Now.call = "vec" /\ UNCHANGED <<vars, shown, base>> /\ printing' = Outer
      /\ Now.next > Size
  BY DEF VecPrinted, InVector
<1>3. /\ n \in Nat \ {0} /\ Now = printing[n] /\ Now \in PrintFrame /\ Len(Outer) = n - 1
      /\ \A i \in 1..(n - 1) : Outer[i] = printing[i]
      /\ \A i \in 1..n : /\ printing[i] \in PrintFrame /\ printing[i].sec \in Section
                         /\ printing[i].call \in {"sec", "vec"}
  BY <1>1, <1>2, NowFacts
<1>4. /\ n \in 1..n /\ \A i \in 1..n : i \in 1..(n - 1) \/ i = n
      /\ \A i \in 1..(n - 1) : i \in 1..n /\ i \in Nat \ {0} /\ \A j \in 1..i : j \in 1..(n - 1)
  BY <1>3
<1>5. (\A i \in 1..n : Nested(i)) /\ \A i \in 1..n : Placed(i)
  BY <1>1, <1>2 DEF BaseInv, ShownInv
<1>6. n > 1 /\ printing[n - 1].call = "sec"
  BY <1>2, <1>3, <1>4, <1>5 DEF Nested
<1>7. PICK s : s = printing[n - 1].sec
  OBVIOUS
<1>8. n - 1 \in 1..(n - 1) /\ n - 1 \in Nat \ {0} /\ 1 \in 1..(n - 1)
  BY <1>3, <1>6
<1>9. s \in Section /\ Now.obj \in Path /\ Leads(Now.obj, s)
  <2>1. base[s] \in Path /\ Leads(base[s], s) /\ Now.obj = base[s]
    BY <1>2, <1>3, <1>4, <1>5, <1>6, <1>7, <1>8 DEF Placed
  <2> QED BY <1>3, <1>4, <1>7, <1>8, <2>1
<1>10. ASSUME NEW i \in 1..(n - 1)
       PROVE  Placed(i)'
  <2>1. printing[i].call = "vec" => printing[i].next > 0
    BY <1>4, <1>5 DEF Placed
  <2>2. \A j \in 1..i : printing'[j] = printing[j]
    BY <1>2, <1>3, <1>4
  <2>3. i \in 1..i
    BY <1>4
  <2> QED BY <1>2, <1>3, <1>4, <1>5, <2>1, <2>2, <2>3, LowerPlaced
<1>11. ASSUME NEW CONSTANT o \in Path, NEW CONSTANT k \in Kw, NEW CONSTANT i \in 1..n,
              Due(o, k), Pending(i, o, k)
       PROVE  \E j \in 1..(n - 1) : Pending(j, o, k)'
  <2>1. CASE i = n
    <3>1. PICK r \in Nat : r >= Now.next /\ Below_(o, Now.obj, Now.kw, r)
      BY <1>2, <1>3, <1>11, <2>1 DEF Pending
    <3>2. PICK t \in Section : Leads(o, t) /\ AllLast(o)
      BY <1>11 DEF Due
    <3>3. r = Size
      <4>1. PICK p, l : p = Now.obj /\ l = Now.kw
        OBVIOUS
      <4>2. r = Cardinality(Entries(p, l))
        <5>1. p \in Path /\ Leads(p, s) /\ Below_(o, p, l, r)
          BY <1>9, <3>1, <4>1
        <5> QED BY <1>9, <3>2, <5>1, LastBelow
      <4> QED BY <4>1, <4>2 DEF Size
    <3>4. Now.next \in Nat
      BY <1>2, <1>3 DEF PrintFrame
    <3> QED BY <1>2, <3>1, <3>3, <3>4
  <2>2. CASE i \in 1..(n - 1)
    <3>1. printing'[i] = printing[i] /\ base' = base
      BY <1>2, <1>3, <2>2
    <3> QED BY <1>11, <2>2, <3>1, LowerCallStays
  <2> QED BY <1>4, <2>1, <2>2
<1>12. Len(printing') = n - 1 /\ printing'[1].all = printing[1].all
  BY <1>2, <1>3, <1>8
<1> QED BY <1>1, <1>2, <1>8, <1>10, <1>11, <1>12, CallsKeep

LEMMA SectionReturnKeeps ==
  ASSUME BaseInv, ShownInv, printing[1].sec = Top, SecPrinted
  PROVE  ShownInv'
<1>1. PICK n : n = Len(printing)
  OBVIOUS
<1>2. /\ printing # <<>> /\ Now.call = "sec" /\ Now.todo = <<>> /\ UNCHANGED <<vars, died>>
      /\ printing' = Outer
      /\ base' = IF Outer = <<>> THEN base
                 ELSE LET f == printing[Len(Outer)] IN [base EXCEPT ![f.sec] = f.old]
      /\ shown' = IF Outer = <<>> THEN {} ELSE shown
  BY DEF SecPrinted, PutBack
<1>3. /\ n \in Nat \ {0} /\ Now = printing[n] /\ Now \in PrintFrame /\ Len(Outer) = n - 1
      /\ Outer \in Seq(PrintFrame)
      /\ \A i \in 1..(n - 1) : Outer[i] = printing[i]
      /\ \A i \in 1..n : /\ printing[i] \in PrintFrame /\ printing[i].sec \in Section
                         /\ printing[i].call \in {"sec", "vec"}
  BY <1>1, <1>2, NowFacts
<1>4. /\ n \in 1..n /\ \A i \in 1..n : i \in 1..(n - 1) \/ i = n
      /\ \A i \in 1..(n - 1) : i \in 1..n /\ i \in Nat \ {0} /\ \A j \in 1..i : j \in 1..(n - 1)
  BY <1>3
<1>5. (\A i \in 1..n : Nested(i)) /\ \A i \in 1..n : Placed(i)
  BY <1>1, <1>2 DEF BaseInv, ShownInv
<1>6. CASE n = 1
  <2>1. Outer = <<>>
    BY <1>3, <1>6
  <2> QED BY <1>2, <2>1 DEF ShownInv
<1>7. CASE n > 1
  <2>1. PICK f : f = printing[n - 1]
    OBVIOUS
  <2>2. n - 1 \in 1..(n - 1) /\ n - 1 \in 1..n /\ 1 \in 1..(n - 1) /\ n - 1 \in Nat \ {0}
    BY <1>3, <1>7
  <2>3. f.call = "vec" /\ f.sec \in Section
    BY <1>2, <1>3, <1>4, <1>5, <1>7, <2>1, <2>2 DEF Nested
  <2>4. base' = [base EXCEPT ![f.sec] = f.old] /\ shown' = shown
    <3>1. Outer # <<>> /\ printing[Len(Outer)] = f
      BY <1>3, <1>7, <2>1
    <3> QED BY <1>2, <3>1
  <2>5. \A i \in 1..((n - 1) - 1) : printing[i].sec # f.sec
    BY <1>1, <2>1, <2>2, <2>3, VectorSectionIsNew
  <2>6. \A i \in 1..(n - 1) : i \in 1..((n - 1) - 1) \/ i = n - 1
    BY <1>3
  <2>7. base \in [Section -> Base]
    BY DEF BaseInv
  <2>8. \A i \in 1..((n - 1) - 1) : base'[printing[i].sec] = base[printing[i].sec]
    <3> TAKE i \in 1..((n - 1) - 1)
    <3>1. i \in 1..n
      BY <1>3
    <3>2. printing[i].sec \in Section
      BY <1>3, <3>1
    <3> QED BY <2>4, <2>5, <2>7, <3>2
  <2>9. ASSUME NEW i \in 1..(n - 1)
        PROVE  Placed(i)'
    <3>1. printing[i].call = "vec" => printing[i].next > 0
      BY <1>4, <1>5 DEF Placed
    <3>2. \A j \in 1..i : printing'[j] = printing[j]
      BY <1>2, <1>3, <1>4
    <3>3. i \in 1..i
      BY <1>4
    <3>4. printing[i].call = "sec" => base'[printing[i].sec] = base[printing[i].sec]
      BY <2>1, <2>3, <2>6, <2>8
    <3>5. printing[i].call = "vec" => base'[printing[i - 1].sec] = base[printing[i - 1].sec]
      <4>1. printing[i].call = "vec" => i > 1
        BY <1>4, <1>5 DEF Nested
      <4>2. i > 1 => i - 1 \in 1..((n - 1) - 1)
        BY <1>3
      <4> QED BY <2>8, <4>1, <4>2
    <3> QED BY <1>2, <1>3, <1>4, <1>5, <3>1, <3>2, <3>3, <3>4, <3>5, LowerPlaced
  <2>10. ASSUME NEW CONSTANT o \in Path, NEW CONSTANT k \in Kw, NEW CONSTANT i \in 1..n,
                Pending(i, o, k)
         PROVE  \E j \in 1..(n - 1) : Pending(j, o, k)'
    <3>1. CASE i = n
      <4>1. ~ \E x \in 1..Len(printing[n].todo) : TRUE
        BY <1>2, <1>3
      <4> QED BY <1>2, <1>3, <2>10, <3>1, <4>1 DEF Pending
    <3>2. CASE i \in 1..(n - 1)
      <4>1. printing'[i] = printing[i]
        BY <1>2, <1>3, <3>2
      <4>2. printing[i].call = "sec" => base'[printing[i].sec] = base[printing[i].sec]
        BY <2>1, <2>3, <2>6, <2>8, <3>2
      <4> QED BY <2>10, <3>2, <4>1, <4>2, LowerCallStays
    <3> QED BY <1>4, <3>1, <3>2
  <2>11. Len(printing') = n - 1 /\ printing'[1].all = printing[1].all
    BY <1>2, <1>3, <2>2
  <2> QED BY <1>1, <1>2, <2>2, <2>4, <2>9, <2>10, <2>11, CallsKeep
<1> QED BY <1>3, <1>6, <1>7

LEMMA PrintElementKeeps ==
  ASSUME BaseInv, ShownInv, ParsedExact, printing[1].sec = Top, PrintElement
  PROVE  ShownInv'
<1>1. PICK n : n = Len(printing)
  OBVIOUS
<1>2. /\ printing # <<>> /\ Now.call = "vec" /\ UNCHANGED <<vars, shown, died>>
      /\ base' = [base EXCEPT ![Now.sec] = Append(Now.obj, <<Now.kw, Now.next>>)]
      /\ printing' = Outer \o <<[Now EXCEPT !.next = Now.next + 1, !.old = base[Now.sec]],
                                SecPrint(Now.sec, ItemOrder[Now.sec])>>
  BY DEF PrintElement, InVector, Following
<1>3. /\ n \in Nat \ {0} /\ Now = printing[n] /\ Now \in PrintFrame /\ Len(Outer) = n - 1
      /\ Outer \in Seq(PrintFrame)
      /\ \A i \in 1..(n - 1) : Outer[i] = printing[i]
      /\ \A i \in 1..n : /\ printing[i] \in PrintFrame /\ printing[i].sec \in Section
                         /\ printing[i].call \in {"sec", "vec"}
  BY <1>1, <1>2, NowFacts
<1>4. /\ n \in 1..n /\ \A i \in 1..n : i \in 1..(n - 1) \/ i = n
      /\ \A i \in 1..(n - 1) : i \in 1..n /\ i \in Nat \ {0} /\ \A j \in 1..i : j \in 1..(n - 1)
  BY <1>3
<1>5. (\A i \in 1..n : Nested(i)) /\ \A i \in 1..n : Placed(i)
  BY <1>1, <1>2 DEF BaseInv, ShownInv
<1>6. /\ Now \in [call : {"vec"}, sec : Section, obj : Path, kw : Kw, next : Nat, old : Base]
      /\ Now.sec \in Section /\ Now.obj \in Path /\ Now.kw \in Kw /\ Now.next \in Nat
      /\ base \in [Section -> Base]
  <2>1. Now \in [call : {"vec"}, sec : Section, obj : Path, kw : Kw, next : Nat, old : Base]
    BY <1>2, <1>3 DEF PrintFrame
  <2> QED BY <2>1 DEF BaseInv
<1> DEFINE f == [Now EXCEPT !.next = Now.next + 1, !.old = base[Now.sec]]
           g == SecPrint(Now.sec, ItemOrder[Now.sec])
           q == Append(Now.obj, <<Now.kw, Now.next>>)
<1>7. /\ f.call = "vec" /\ f.sec = Now.sec /\ f.obj = Now.obj /\ f.kw = Now.kw
      /\ f.next = Now.next + 1
  BY <1>6
<1>8. g.call = "sec" /\ g.sec = Now.sec /\ g.todo = ItemOrder[Now.sec]
  BY DEF SecPrint
<1>9. base'[Now.sec] = q /\ \A s \in Section : s # Now.sec => base'[s] = base[s]
  BY <1>2, <1>6
<1>10. printing' = Outer \o <<f, g>>
  BY <1>2
<1>11. q \in Path
  BY <1>6, PathAppend
<1> HIDE DEF f, g, q
<1>12. PICK m : m = n + 1
  OBVIOUS
<1>13. /\ Len(printing') = m /\ \A i \in 1..(n - 1) : printing'[i] = printing[i]
       /\ printing'[n] = f /\ printing'[m] = g /\ m \in Nat \ {0} /\ m \in 1..m /\ n \in 1..m
       /\ \A i \in 1..n : i \in 1..m
       /\ \A i \in 1..m : i \in 1..n \/ i = m
  <2>1. PICK S : f \in S /\ g \in S /\ PrintFrame \subseteq S
    <3>1. f \in PrintFrame \cup {f, g} /\ g \in PrintFrame \cup {f, g}
      OBVIOUS
    <3> QED BY <3>1
  <2>2. Outer \in Seq(S)
    <3>1. \A i \in 1..Len(Outer) : Outer[i] \in S
      BY <1>3, <2>1
    <3> QED BY <1>3, <3>1
  <2>3. PICK p : p = <<f, g>>
    OBVIOUS
  <2>4. p \in Seq(S) /\ Len(p) = 2 /\ p[1] = f /\ p[2] = g
    BY <2>1, <2>3
  <2>5. /\ Len(Outer \o p) = (n - 1) + 2
        /\ \A i \in 1..(n - 1) : (Outer \o p)[i] = Outer[i]
        /\ (Outer \o p)[(n - 1) + 1] = p[1] /\ (Outer \o p)[(n - 1) + 2] = p[2]
    <3>1. PICK u : u = Outer
      OBVIOUS
    <3>2. u \in Seq(S) /\ Len(u) = n - 1
      BY <1>3, <2>2, <3>1
    <3>3. /\ Len(u \o p) = (n - 1) + 2
          /\ \A i \in 1..((n - 1) + 2) :
               (u \o p)[i] = IF i <= n - 1 THEN u[i] ELSE p[i - (n - 1)]
      <4>1. PICK h : h = n - 1
        OBVIOUS
      <4>2. /\ Len(u \o p) = h + 2
            /\ \A i \in 1..(h + 2) : (u \o p)[i] = IF i <= h THEN u[i] ELSE p[i - h]
        <5>1. /\ Len(u \o p) = Len(u) + Len(p)
              /\ \A i \in 1..(Len(u) + Len(p)) :
                   (u \o p)[i] = IF i <= Len(u) THEN u[i] ELSE p[i - Len(u)]
          BY <2>4, <3>2, ConcatProperties
        <5>2. Len(u) = h /\ Len(p) = 2
          BY <2>4, <3>2, <4>1
        <5> QED BY <5>1, <5>2
      <4> QED BY <4>1, <4>2
    <3>4. /\ \A i \in 1..(n - 1) : i \in 1..((n - 1) + 2) /\ i <= n - 1
          /\ (n - 1) + 1 \in 1..((n - 1) + 2) /\ (n - 1) + 2 \in 1..((n - 1) + 2)
          /\ ~((n - 1) + 1 <= n - 1) /\ ~((n - 1) + 2 <= n - 1)
          /\ ((n - 1) + 1) - (n - 1) = 1 /\ ((n - 1) + 2) - (n - 1) = 2
      BY <1>3
    <3> QED BY <3>1, <3>3, <3>4
  <2>6. (n - 1) + 1 = n /\ (n - 1) + 2 = m
    BY <1>3, <1>12
  <2>7. /\ m \in Nat \ {0} /\ m \in 1..m /\ n \in 1..m
        /\ \A i \in 1..n : i \in 1..m
        /\ \A i \in 1..m : i \in 1..n \/ i = m
    BY <1>3, <1>12
  <2> QED BY <1>3, <1>10, <2>3, <2>4, <2>5, <2>6, <2>7
<1>14. PICK s : s = printing[n - 1].sec
  OBVIOUS
<1>15. /\ n > 1 /\ printing[n - 1].call = "sec" /\ n - 1 \in 1..(n - 1) /\ 1 \in 1..(n - 1)
       /\ Now.obj = base[s] /\ s \in Section /\ Leads(Now.obj, s)
       /\ Now.kw \in DOMAIN Schema[s] /\ Now.next > 0
       /\ Schema[s][Now.kw].type = "VSEC" /\ Schema[s][Now.kw].child = Now.sec
  <2>1. n > 1 /\ printing[n - 1].call = "sec"
    BY <1>2, <1>3, <1>4, <1>5 DEF Nested
  <2>2. n - 1 \in 1..(n - 1) /\ 1 \in 1..(n - 1) /\ n - 1 \in 1..n
    BY <1>3, <2>1
  <2>3. /\ Now.obj = base[s] /\ Now.kw \in DOMAIN Schema[s] /\ Now.next > 0
        /\ Schema[s][Now.kw].type = "VSEC" /\ Schema[s][Now.kw].child = Now.sec
    BY <1>2, <1>3, <1>4, <1>5, <1>14 DEF Placed
  <2>4. Leads(base[s], s) /\ s \in Section
    BY <1>3, <1>5, <1>14, <2>1, <2>2 DEF Placed
  <2> QED BY <2>1, <2>2, <2>3, <2>4
<1>16. Leads(q, Now.sec)
  <2>1. Owns(s, Now.kw, Now.sec) /\ ~(Schema[s][Now.kw].type = "SEC") /\ Now.next # 0
    BY <1>6, <1>15 DEF Owns
  <2> QED BY <1>6, <1>15, <2>1, LeadsAppend DEF q
<1>17. \A i \in 1..(n - 1) : base'[printing[i].sec] = base[printing[i].sec]
  <2> TAKE i \in 1..(n - 1)
  <2>1. printing[i].sec # Now.sec
    BY <1>1, <1>2, <1>3, <1>4, VectorSectionIsNew
  <2> QED BY <1>3, <1>4, <1>9, <2>1
<1>18. \A i \in 1..n : printing'[i].sec = printing[i].sec /\ printing'[i].call = printing[i].call
  BY <1>2, <1>3, <1>4, <1>7, <1>13
<1>19. ASSUME NEW i \in 1..n
       PROVE  Placed(i)'
  <2>1. i \in Nat \ {0} /\ \A j \in 1..i : j \in 1..n
    BY <1>3
  <2>2. printing[i].call = "vec" =>
           /\ printing'[i].obj = printing[i].obj
           /\ printing'[i].kw = printing[i].kw /\ printing'[i].next > 0
    <3>1. CASE i = n
      <4>1. Now.next + 1 > 0
        BY <1>6
      <4> QED BY <1>3, <1>7, <1>13, <3>1, <4>1
    <3>2. CASE i \in 1..(n - 1)
      BY <1>5, <1>13, <3>2 DEF Placed
    <3> QED BY <1>4, <3>1, <3>2
  <2>3. printing[i].call = "sec" => base'[printing[i].sec] = base[printing[i].sec]
    BY <1>2, <1>3, <1>4, <1>17
  <2>4. printing[i].call = "vec" => base'[printing[i - 1].sec] = base[printing[i - 1].sec]
    <3>1. printing[i].call = "vec" => i > 1
      BY <1>5 DEF Nested
    <3>2. i > 1 => i - 1 \in 1..(n - 1)
      BY <1>3
    <3> QED BY <1>17, <3>1, <3>2
  <2>5. i \in 1..i
    BY <2>1
  <2> QED BY <1>3, <1>5, <1>18, <2>1, <2>2, <2>3, <2>4, <2>5, LowerPlaced
<1>20. ASSUME NEW CONSTANT j, j = m
       PROVE  Placed(j)'
  <2>1. printing'[j] = g
    BY <1>13, <1>20
  <2> QED BY <1>8, <1>9, <1>11, <1>16, <2>1 DEF Placed
<1>21. ASSUME NEW CONSTANT o \in Path, NEW CONSTANT k \in Kw, NEW CONSTANT i \in 1..n,
              Due(o, k), Pending(i, o, k)
       PROVE  \E j \in 1..m : Pending(j, o, k)'
  <2>1. CASE i = n
    <3>1. PICK r \in Nat : r >= Now.next /\ Below_(o, Now.obj, Now.kw, r)
      BY <1>2, <1>3, <1>21, <2>1 DEF Pending
    <3>2. CASE r = Now.next
      <4>1. o = q \/ \E l \in Kw, z \in Nat : Below_(o, q, l, z)
        BY <1>6, <3>1, <3>2, BelowSplit DEF q
      <4>2. PICK x \in 1..Len(ItemOrder[Now.sec]) :
              \/ o = q /\ k = ItemOrder[Now.sec][x]
              \/ \E z \in Nat : Below_(o, q, ItemOrder[Now.sec][x], z)
        BY <1>6, <1>11, <1>16, <1>21, <4>1, DueIsListed
      <4>3. Pending(m, o, k)'
        BY <1>8, <1>9, <1>13, <4>2 DEF Pending
      <4> QED BY <1>13, <4>3
    <3>3. CASE r >= Now.next + 1
      <4>1. Pending(n, o, k)'
        BY <1>7, <1>13, <3>1, <3>3 DEF Pending
      <4> QED BY <1>13, <4>1
    <3> QED BY <1>6, <3>1, <3>2, <3>3
  <2>2. CASE i \in 1..(n - 1)
    <3>1. Pending(i, o, k)'
      BY <1>13, <1>17, <1>21, <2>2, LowerCallStays
    <3> QED BY <1>13, <3>1
  <2> QED BY <1>4, <2>1, <2>2
<1>22. \A i \in 1..m : Placed(i)'
  BY <1>13, <1>19, <1>20
<1>23. printing'[1].all = printing[1].all
  BY <1>13, <1>15
<1> QED BY <1>1, <1>2, <1>13, <1>21, <1>22, <1>23, CallsKeep

(* The call of the program is the outermost until it returns. *)
LEMMA FirstStays ==
  ASSUME BaseInv, PrStep
  PROVE  /\ printing # <<>> /\ UNCHANGED vars
         /\ printing' = <<>> => shown' = {}
         /\ printing' # <<>> => printing'[1].sec = printing[1].sec
<1>1. printing # <<>> /\ UNCHANGED vars
  BY DEF PrStep, SkipUnparsed, PrintWild, PrintValue, PrintUser, PrintSection, PrintElements,
     Reached, Turn, SecPrinted, PrintElement, VecPrinted, InVector
<1>2. PICK n : n = Len(printing)
  OBVIOUS
<1>3. /\ n \in Nat \ {0} /\ Now = printing[n] /\ Outer \in Seq(PrintFrame) /\ Len(Outer) = n - 1
      /\ \A i \in 1..(n - 1) : Outer[i] = printing[i]
  BY <1>1, <1>2, NowFacts
<1>4. n = 1 \/ 1 \in 1..(n - 1)
  BY <1>3
<1>5. ASSUME NEW k, Turn(k)
      PROVE  /\ Advance \in Seq(PrintFrame) /\ Len(Advance) = n /\ Advance # <<>>
             /\ Advance[1].sec = printing[1].sec
  <2>1. /\ Advance \in Seq(PrintFrame) /\ Len(Advance) = n
        /\ \A i \in 1..(n - 1) : Advance[i] = printing[i]
        /\ Advance[n].sec = Now.sec
    BY <1>2, <1>5, TurnFacts
  <2>2. Advance # <<>>
    BY <1>3, <2>1
  <2> QED BY <1>3, <1>4, <2>1, <2>2
<1>6. ASSUME NEW k, \/ SkipUnparsed(k) \/ PrintWild(k) \/ PrintValue(k) \/ PrintUser(k) \/ PrintSection(k)
      PROVE  printing' # <<>> /\ printing'[1].sec = printing[1].sec
  <2>1. Turn(k) /\ (printing' = Advance \/ printing' = printing)
    BY <1>6 DEF SkipUnparsed, PrintWild, PrintValue, PrintUser, PrintSection, Reached
  <2> QED BY <1>1, <1>5, <2>1
<1>7. ASSUME NEW k, PrintElements(k)
      PROVE  printing' # <<>> /\ printing'[1].sec = printing[1].sec
  <2>1. Turn(k)
    BY <1>7 DEF PrintElements, Reached
  <2>2. PICK g : printing' = Append(Advance, g) \/ printing' = Advance
    BY <1>7 DEF PrintElements
  <2>3. CASE printing' = Advance
    BY <1>5, <2>1, <2>3
  <2>4. CASE printing' = Append(Advance, g)
    <3>1. PICK q : q = Advance
      OBVIOUS
    <3>2. q \in Seq(PrintFrame) /\ Len(q) = n /\ q[1].sec = printing[1].sec
      BY <1>5, <2>1, <3>1
    <3>3. Append(q, g) # <<>> /\ Append(q, g)[1] = q[1]
      BY <1>3, <3>2
    <3> QED BY <2>4, <3>1, <3>2, <3>3
  <2> QED BY <2>2, <2>3, <2>4
<1>8. CASE SecPrinted
  <2>1. printing' = Outer /\ (Outer = <<>> => shown' = {})
    BY <1>8 DEF SecPrinted
  <2>2. Outer # <<>> => n # 1
    BY <1>3
  <2> QED BY <1>1, <1>3, <1>4, <2>1, <2>2
<1>9. ASSUME Now.call = "vec"
      PROVE  1 \in 1..(n - 1) /\ Outer # <<>>
  <2>1. n > 1
    <3>1. n \in 1..n
      BY <1>3
    <3> QED BY <1>2, <1>3, <1>9, <3>1 DEF BaseInv, Nested
  <2> QED BY <1>3, <2>1
<1>10. CASE VecPrinted
  BY <1>1, <1>3, <1>9, <1>10 DEF VecPrinted, InVector
<1>11. CASE PrintElement
  <2>1. Now.call = "vec"
    BY <1>11 DEF PrintElement, InVector
  <2>2. PICK f, g : printing' = Outer \o <<f, g>>
    BY <1>11 DEF PrintElement
  <2>3. PICK u, p : u = Outer /\ p = <<f, g>>
    OBVIOUS
  <2>4. u \in Seq(PrintFrame \cup {f, g}) /\ p \in Seq(PrintFrame \cup {f, g}) /\ Len(p) = 2
    <3>1. \A i \in 1..Len(u) : u[i] \in PrintFrame \cup {f, g}
      BY <1>3, <2>3
    <3> QED BY <1>3, <2>3, <3>1
  <2>5. /\ Len(u \o p) = Len(u) + Len(p)
        /\ \A i \in 1..(Len(u) + Len(p)) :
             (u \o p)[i] = IF i <= Len(u) THEN u[i] ELSE p[i - Len(u)]
    BY <2>4, ConcatProperties
  <2>6. Len(u) = n - 1 /\ 1 \in 1..(Len(u) + Len(p)) /\ 1 <= Len(u) /\ u[1] = printing[1]
    BY <1>3, <1>9, <2>1, <2>3, <2>4
  <2>7. (u \o p)[1] = printing[1] /\ u \o p # <<>>
    BY <2>5, <2>6
  <2> QED BY <1>1, <2>2, <2>3, <2>7
<1> QED BY <1>1, <1>6, <1>7, <1>8, <1>10, <1>11 DEF PrStep

(* Nothing moves. *)
LEMMA NothingShown ==
  ASSUME ShownInv, UNCHANGED <<vars, base, printing, shown>>
  PROVE  ShownInv'
<1>1. \A i : Placed(i)' <=> Placed(i)
  BY DEF Placed
<1>2. \A i, o, k : Pending(i, o, k)' <=> Pending(i, o, k)
  BY DEF Pending
<1>3. OnlyGiven' <=> OnlyGiven
  BY SameParse DEF OnlyGiven
<1>4. NothingPassed' <=> NothingPassed
  BY <1>2, SameParse DEF NothingPassed
<1> QED BY <1>1, <1>3, <1>4, SameParse DEF ShownInv

LEMMA PrintingKeepsShown ==
  ASSUME BaseInv, ShownInv, ParsedExact, PrStep
  PROVE  ShownInv'
<1>1. /\ printing # <<>> /\ UNCHANGED vars
      /\ printing' = <<>> => shown' = {}
      /\ printing' # <<>> => printing'[1].sec = printing[1].sec
  BY FirstStays
<1>2. CASE printing[1].sec # Top
  BY <1>1, <1>2, SameParse DEF ShownInv
<1>3. CASE printing[1].sec = Top
  <2>1. ASSUME NEW CONSTANT k \in Kw,
               SkipUnparsed(k) \/ PrintValue(k) \/ PrintUser(k) \/ PrintSection(k), printing' = Advance
        PROVE  ShownInv'
    BY <1>3, <2>1, PrintItemKeeps
  <2>2. ASSUME NEW CONSTANT k \in Kw, PrintWild(k) \/ PrintSection(k), printing' = printing
        PROVE  ShownInv'
    <3>1. UNCHANGED <<vars, base, printing, shown>>
      BY <2>2 DEF PrintWild, PrintSection, Reached, Turn
    <3> QED BY <3>1, NothingShown
  <2>3. ASSUME NEW CONSTANT k \in Kw,
               SkipUnparsed(k) \/ PrintWild(k) \/ PrintValue(k) \/ PrintUser(k) \/ PrintSection(k)
        PROVE  ShownInv'
    <3>1. \/ PrintWild(k) /\ printing' = printing
          \/ PrintSection(k) /\ printing' = printing
          \/ /\ SkipUnparsed(k) \/ PrintValue(k) \/ PrintUser(k) \/ PrintSection(k)
             /\ printing' = Advance
      BY <2>3 DEF SkipUnparsed, PrintWild, PrintValue, PrintUser, PrintSection
    <3> QED BY <2>1, <2>2, <3>1
  <2>4. ASSUME NEW CONSTANT k \in Kw, PrintElements(k)
        PROVE  ShownInv'
    BY <1>3, <2>4, PrintVectorKeeps
  <2> QED BY <1>3, <2>3, <2>4, SectionReturnKeeps, VectorReturnKeeps, PrintElementKeeps DEF PrStep
<1> QED BY <1>2, <1>3

(* scapar_print begins with nothing shown and everything still to come.    *)
LEMMA BeginningKeepsShown ==
  ASSUME BaseInv, ShownInv, PrBegin
  PROVE  ShownInv'
<1>1. PICK s \in Section, todo \in Seq(Kw) : Begin(s, todo)
  <2>1. ASSUME NEW s \in Section
        PROVE  ItemOrder[s] \in Seq(Kw) /\ \A k \in Kw : <<k>> \in Seq(Kw)
    BY LayoutAssumption
  <2>2. Top \in Section
    BY ParserAssumption
  <2>3. CASE PrintAll
    BY <2>1, <2>2, <2>3 DEF PrintAll
  <2>4. ASSUME NEW s \in Section, PrintSec(s) \/ \E k \in Kw : PrintByKey(s, k)
        PROVE  \E t \in Section, todo \in Seq(Kw) : Begin(t, todo)
    BY <2>1, <2>4 DEF PrintSec, PrintByKey
  <2> QED BY <2>3, <2>4 DEF PrBegin
<1>2. /\ printing = <<>> /\ UNCHANGED <<vars, base, shown>> /\ Between
      /\ printing' = <<SecPrint(s, todo)>> \/ printing' = printing
  BY <1>1 DEF Begin, MayPrint, Idle
<1>3. shown = {} /\ shown' = {}
  BY <1>2 DEF ShownInv
<1>4. CASE printing' = printing
  BY <1>2, <1>4, NothingShown
<1>5. ASSUME printing' = <<SecPrint(s, todo)>>, s = Top
      PROVE  ShownInv'
  <2>1. PICK f : f = SecPrint(s, todo)
    OBVIOUS
  <2>2. f.call = "sec" /\ f.sec = Top /\ f.todo = todo /\ f.all = (todo = ItemOrder[Top])
    BY <1>5, <2>1 DEF SecPrint
  <2>3. printing' # <<>> /\ Len(printing') = 1 /\ printing'[1] = f
    BY <1>5, <2>1
  <2>4. base'[Top] = <<>> /\ Top \in Section
    <3>1. Len(printing) = 0 /\ Top \in Section
      BY <1>2, ParserAssumption
    <3>2. ~Borrowed(Top)
      BY <3>1 DEF Borrowed
    <3> QED BY <1>2, <3>1, <3>2, PrinterAssumption DEF BaseInv
  <2>5. <<>> \in Path /\ Leads(<<>>, Top)
    BY <2>4, LeadsEmpty DEF Path
  <2>6. Placed(1)'
    BY <2>2, <2>3, <2>4, <2>5 DEF Placed
  <2>7. ASSUME f.all, NEW CONSTANT o \in Path, NEW CONSTANT k \in Kw, Due(o, k)
        PROVE  Pending(1, o, k)'
    <3>1. PICK q : q = <<>>
      OBVIOUS
    <3>2. o = q \/ \E l \in Kw, r \in Nat : Below_(o, q, l, r)
      BY <3>1, BelowTop
    <3>3. q \in Path /\ Leads(q, Top)
      BY <2>5, <3>1
    <3>4. PICK x \in 1..Len(ItemOrder[Top]) :
            \/ o = q /\ k = ItemOrder[Top][x]
            \/ \E r \in Nat : Below_(o, q, ItemOrder[Top][x], r)
      BY <2>4, <2>7, <3>2, <3>3, DueIsListed
    <3> QED BY <2>2, <2>3, <2>4, <2>7, <3>1, <3>4 DEF Pending
  <2>8. f.all => NothingPassed'
    <3>1. 1 \in 1..1
      OBVIOUS
    <3> QED BY <1>2, <2>3, <2>7, <3>1, SameParse DEF NothingPassed
  <2>9. OnlyGiven'
    BY <1>3 DEF OnlyGiven
  <2> QED BY <1>2, <2>3, <2>6, <2>8, <2>9, SameParse DEF ShownInv
<1>6. ASSUME printing' = <<SecPrint(s, todo)>>, s # Top
      PROVE  ShownInv'
  <2>1. printing' # <<>> /\ printing'[1].sec = s
    BY <1>6 DEF SecPrint
  <2> QED BY <1>2, <1>6, <2>1, SameParse DEF ShownInv
<1> QED BY <1>2, <1>4, <1>5, <1>6

LEMMA ShownInductive ==
  BaseInv /\ ShownInv /\ ParsedExact /\ [PrNext]_pvars => ShownInv'
<1> SUFFICES ASSUME BaseInv, ShownInv, ParsedExact, [PrNext]_pvars PROVE ShownInv'
  OBVIOUS
<1>1. CASE UNCHANGED pvars
  BY <1>1, NothingShown DEF pvars, printer
<1>2. CASE ParseBetween
  BY <1>2 DEF ParseBetween, Idle, printer, ShownInv
<1> QED BY <1>1, <1>2, BeginningKeepsShown, PrintingKeepsShown DEF PrNext, Dead

LEMMA ShownAtLast ==
  ParsedExact /\ ShownInv /\ BaseInv => LastElementsShown
<1> SUFFICES ASSUME ParsedExact, ShownInv, BaseInv, WholeShown
             PROVE  /\ \A v \in Printable : AllLast(v[1]) => v \in shown
                    /\ \A v \in shown  : AllLast(v[1]) => Given(v[1], v[2])
  BY DEF LastElementsShown
<1>1. /\ Len(printing) = 1 /\ printing # <<>> /\ printing[1] = Now
      /\ Now.sec = Top /\ Now.all /\ Now.todo = <<>>
  <2>1. Len(printing) = 1 /\ Now.sec = Top /\ Now.all /\ Now.todo = <<>>
    BY DEF WholeShown
  <2> QED BY <2>1 DEF Now
<1>2. OnlyGiven /\ NothingPassed
  BY <1>1 DEF ShownInv
<1>3. ASSUME NEW i \in 1..Len(printing), NEW o, NEW k
      PROVE  ~Pending(i, o, k)
  <2>1. i = 1 /\ 1 \in 1..1
    BY <1>1
  <2>2. Now.call = "sec"
    BY <1>1, <2>1 DEF BaseInv, Nested, PrintFrame
  <2>3. Len(Now.todo) = 0
    BY <1>1
  <2> QED BY <1>1, <2>1, <2>2, <2>3 DEF Pending
<1>4. ASSUME NEW v \in Printable, AllLast(v[1])
      PROVE  v \in shown
  <2>1. PICK e \in data : e.type \in PrintedTypes /\ v = <<e.obj, e.kw>>
    BY <1>4 DEF Printable, PrintedTypes
  <2>2. e \in Entry /\ EntryOK(e)
    BY DEF ParsedExact, ParserInv, FrameInv, TypeOK, OnceOK
  <2>3. e.obj \in Path /\ e.kw \in Kw /\ e \in Entries(e.obj, e.kw)
    BY <2>2 DEF Entry, Entries
  <2>4. e.type # "ROW"
    BY <2>1 DEF PrintedTypes
  <2>5. PICK s \in Section :
          Leads(e.obj, s) /\ e.kw \in DOMAIN Schema[s] /\ Schema[s][e.kw].type = e.type
    BY <2>2, <2>4 DEF EntryOK
  <2>6. Due(e.obj, e.kw)
    BY <1>4, <2>1, <2>3, <2>5 DEF Due, Given
  <2> QED BY <1>2, <1>3, <2>1, <2>3, <2>6 DEF NothingPassed
<1> QED BY <1>2, <1>4 DEF OnlyGiven

LEMMA PrinterStep ==
  [PrNext]_pvars => [Next]_vars
<1> SUFFICES ASSUME [PrNext]_pvars PROVE [Next]_vars
  OBVIOUS
<1>1. CASE PrBegin \/ PrStep
  BY <1>1 DEF PrBegin, PrintAll, PrintSec, PrintByKey, Begin, PrStep, SkipUnparsed,
     PrintWild, PrintValue, PrintUser, PrintSection, PrintElements, Reached, Turn, SecPrinted,
     PrintElement, VecPrinted, InVector
<1> QED BY <1>1 DEF PrNext, ParseBetween, Dead, pvars

LEMMA PrinterInitially ==
  PrInit => BaseInv /\ ShownInv /\ ParsedExact
<1> SUFFICES ASSUME PrInit PROVE BaseInv /\ ShownInv /\ ParsedExact
  OBVIOUS
<1>1. base = Base0 /\ printing = <<>> /\ shown = {} /\ Init
  BY DEF PrInit
<1>2. BaseInv
  <2>1. printing \in Seq(PrintFrame) /\ Len(printing) = 0 /\ Base0 \in [Section -> Base]
    BY <1>1, PrinterAssumption DEF Base
  <2> QED BY <1>1, <2>1 DEF BaseInv
<1>3. ParserInv
  BY <1>1, FramesInitially DEF Init, ReachOK, Touched, OnceOK, MarkedIfGiven,
     SingleGiven, OncePerObject, ParserInv
<1>4. MarksRegistered
  BY <1>1 DEF Init, MarksRegistered
<1>5. ParsedExact
  BY <1>1, <1>3, <1>4, VectorsInitially, ExactInitially DEF ParsedExact
<1> QED BY <1>1, <1>2, <1>5 DEF ShownInv

LEMMA ParsedExactKept ==
  ParsedExact /\ [Next]_vars => ParsedExact'
BY FramesInductive, ReachInductive, OnceInductive, VectorsInductive, ExactInductive,
   MarksRegisteredInductive DEF ParsedExact, ParserInv

LEMMA PrinterBaseKept ==
  BaseInv /\ MarksRegistered /\ [PrNext]_pvars => BaseInv'
<1> SUFFICES ASSUME BaseInv, MarksRegistered, [PrNext]_pvars PROVE BaseInv'
  OBVIOUS
<1>1. CASE UNCHANGED printer
  BY <1>1 DEF printer, BaseInv, Nested, Borrowed
<1>2. CASE PrBegin \/ PrStep
  BY <1>2, PrintingBegins, PrintingKeepsBase
<1> QED BY <1>1, <1>2 DEF PrNext, ParseBetween, Dead, pvars

LEMMA PrinterInductive ==
  /\ PrInit => BaseInv /\ ShownInv /\ ParsedExact
  /\ BaseInv /\ ShownInv /\ ParsedExact /\ [PrNext]_pvars
       => BaseInv' /\ ShownInv' /\ ParsedExact'
<1>1. ParsedExact => MarksRegistered
  BY DEF ParsedExact
<1> QED BY <1>1, PrinterInitially, PrinterStep, ParsedExactKept, PrinterBaseKept, ShownInductive

(* When scapar_print ends, the values of the top section and of the last   *)
(* elements of its vectors, of theirs and so on have been shown, and of    *)
(* such objects nothing that the file has not given, although the marks it *)
(* goes by are shared by all elements.                                     *)
THEOREM PrinterShowsLast ==
  PrSpec => []LastElementsShown
BY PrinterInductive, ShownAtLast, PTL DEF PrSpec

LEMMA BaseIsRestored ==
  BaseInv => BaseRestored
<1> SUFFICES ASSUME BaseInv, Idle PROVE base = Base0
  BY DEF BaseRestored
<1>1. Len(printing) = 0
  BY DEF Idle
<1>2. \A s \in Section : base[s] = Base0[s]
  BY <1>1 DEF BaseInv, Borrowed
<1>3. base \in [Section -> Base] /\ Base0 \in [Section -> Base]
  BY PrinterAssumption DEF BaseInv, Base
<1> QED BY <1>2, <1>3

(* Between two calls of the program every section descriptor has the base  *)
(* address registration gave it, whatever is nested in what.               *)
THEOREM PrinterRestoresBase ==
  PrSpec => []BaseRestored
BY PrinterInductive, BaseIsRestored, PTL DEF PrSpec

-----------------------------------------------------------------------------
(* The program *)

(* Printing and finalising leave the parser alone. *)
LEMMA ScaparStep ==
  [ScNext]_svars => [Next]_vars
<1> SUFFICES ASSUME [ScNext]_svars PROVE [Next]_vars
  OBVIOUS
<1>1. CASE UNCHANGED svars
  BY <1>1 DEF svars
<1>2. CASE Parsing
  BY <1>2 DEF Parsing
<1>3. CASE Printing
  BY <1>3 DEF Printing, PrBegin, PrintAll, PrintSec, PrintByKey, Begin, PrStep, SkipUnparsed,
     PrintWild, PrintValue, PrintUser, PrintSection, PrintElements, Reached, Turn, SecPrinted,
     PrintElement, VecPrinted, InVector
<1>4. CASE Finalizing_
  BY <1>4 DEF Finalizing_, Finalize, FinalizeAgain, FinStep, FreePlain, FreeString, FreeVector,
     FreeTable, FreeUser, FreeSection, DestroyElements, FreeElementSection, FreeWhatIsNone,
     Visit, DestroyElement, ElementsDestroyed, SectionDone
<1>5. CASE Stopped
  BY <1>5 DEF Stopped, svars
<1> QED BY <1>1, <1>2, <1>3, <1>4, <1>5 DEF ScNext

(* A program that prints and finalises parses as one that does not: what   *)
(* SectionParserProofs proves holds in it.                                 *)
THEOREM ScaparParses ==
  ScSpec => Spec
<1>1. ScInit => Init
  BY DEF ScInit, FinInit
<1> QED BY <1>1, ScaparStep, PTL DEF ScSpec, Spec

(* Printing leaves finalisation alone, too. *)
LEMMA ScaparFinStep ==
  [ScNext]_svars => [FinNext]_fvars
<1> SUFFICES ASSUME [ScNext]_svars PROVE [FinNext]_fvars
  OBVIOUS
<1>1. CASE UNCHANGED svars
  BY <1>1 DEF svars, fvars, finalizing
<1>2. CASE Parsing
  BY <1>2 DEF Parsing, FinNext, ParseBefore
<1>3. CASE Printing
  <2>1. UNCHANGED vars
    BY <1>3 DEF Printing, PrBegin, PrintAll, PrintSec, PrintByKey, Begin, PrStep, SkipUnparsed,
       PrintWild, PrintValue, PrintUser, PrintSection, PrintElements, Reached, Turn, SecPrinted,
       PrintElement, VecPrinted, InVector
  <2> QED BY <1>3, <2>1 DEF Printing, fvars, finalizing
<1>4. CASE Finalizing_
  BY <1>4 DEF Finalizing_, FinNext
<1>5. CASE Stopped
  BY <1>5 DEF Stopped, svars, fvars, finalizing
<1> QED BY <1>1, <1>2, <1>3, <1>4, <1>5 DEF ScNext

(* A program that prints before it parses, after, and in between finalises *)
(* as one that does not print: what FinalizerProofs proves holds in it.    *)
THEOREM ScaparFinalizes ==
  ScSpec => FinSpec
<1>1. ScInit => FinInit
  BY DEF ScInit
<1> QED BY <1>1, ScaparFinStep, PTL DEF ScSpec, FinSpec

(* So, where elements hold no vectors of sections, a program that mixes all *)
(* the calls frees every block once, follows no descriptor that is gone,   *)
(* frees owners last, and leaves nothing but unmarked strings in elements. *)
THEOREM ScaparFreesRight ==
  ASSUME NoVectorInElement
  PROVE  ScSpec => [](FreedOnce /\ NoDangling /\ OwnerLast /\ OnlyStringsLeft)
BY ScaparFinalizes, FinalizerFreesOnce, FinalizerNeverDangles, FinalizerFreesOwnersLast,
   FinalizerLeavesOnlyStrings, PTL

(* Finalising leaves printing alone, too. *)
LEMMA ScaparPrintStep ==
  [ScNext]_svars => [PrNext]_pvars
<1> SUFFICES ASSUME [ScNext]_svars PROVE [PrNext]_pvars
  OBVIOUS
<1>1. CASE UNCHANGED svars
  BY <1>1 DEF svars, pvars
<1>2. CASE Parsing
  BY <1>2 DEF Parsing, PrNext, ParseBetween
<1>3. CASE Printing
  BY <1>3 DEF Printing, PrNext
<1>4. CASE Finalizing_
  BY <1>4 DEF Finalizing_, Finalize, FinalizeAgain, FinStep, FreePlain, FreeString, FreeVector,
     FreeTable, FreeUser, FreeSection, DestroyElements, FreeElementSection, FreeWhatIsNone,
     Visit, DestroyElement, ElementsDestroyed, SectionDone, pvars
<1> QED BY <1>1, <1>2, <1>3, <1>4 DEF ScNext, Stopped

(* A program that mixes the calls prints as one that does not finalise.    *)
THEOREM ScaparPrints ==
  ScSpec => PrSpec
<1>1. ScInit => PrInit
  BY DEF ScInit, FinInit, PrInit
<1> QED BY <1>1, ScaparPrintStep, PTL DEF ScSpec, PrSpec

(* So it shows what it should and finds the base addresses restored,       *)
(* whether it prints before it parses, after, or in between.               *)
THEOREM ScaparBaseRestored ==
  ScSpec => []BaseRestored
BY ScaparPrints, PrinterRestoresBase, PTL

(* The last elements are shown in a program that mixes the calls, too. *)
THEOREM ScaparShowsLast ==
  ScSpec => []LastElementsShown
BY ScaparPrints, PrinterShowsLast, PTL
=============================================================================
