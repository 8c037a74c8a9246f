------------------------------ MODULE Registry ------------------------------
(***************************************************************************)
(* The keyword registry of scapar: the sections a program builds with      *)
(* scapar_register and scapar_sec_register before it parses a file, the    *)
(* lazy sorting of their keyword arrays and the lookups that rely on it.   *)
(*                                                                         *)
(* A section is a number: Root is the section embedded in SCAPAR, the      *)
(* others are handed out in the order scapar_calloc creates them.  A       *)
(* keyword spelling is a number too, in strcmp order, so that comparing    *)
(* keys is comparing integers.                                             *)
(***************************************************************************)
EXTENDS Integers, Sequences, FiniteSets, Functions

CONSTANTS
  Name,     \* the spellings callers use, numbered in strcmp order
  Lower,    \* scapar_string_to_lower on spellings
  Trim,     \* scapar_str_remove_spaces on spellings
  MaxSec,   \* bound: sections, the root included
  MaxReg,   \* bound: successful registrations
  Grow      \* slots added when an item array is full (16 in the code)

ASSUME RegistryAssumption ==
  /\ Name \subseteq Int
  /\ Lower \in [Name -> Name]
  /\ Trim \in [Name -> Name]
  /\ MaxSec \in Nat \ {0}
  /\ MaxReg \in Nat
  /\ Grow \in Nat \ {0}

VARIABLES
  items,      \* items[s]: the first s->size slots of s->item
  alloc,      \* alloc[s]: s->alloc
  sorted,     \* sorted[s]: s->sorted
  nsec,       \* sections allocated so far, the root included
  nreg,       \* registrations so far; gives every keyword its own offset
  rsorted,    \* scapar->sorted, the parser's own copy of the root's flag
  dup_check,  \* scapar->dup_check
  cs_mark,    \* scapar->cs_mark
  handles,    \* section pointers the library has returned to the program
  outcome     \* whether the process runs or how it ended

vars == <<items, alloc, sorted, nsec, nreg, rsorted, dup_check, cs_mark,
          handles, outcome>>

Root == 1
NULL == 0
Sec  == 1..MaxSec

(* SCAPAR_T_SEC and vectors of sections own a child section; the other     *)
(* types do not, and registration treats them all alike.                   *)
ItemType == {"VALUE", "SEC", "VEC_SEC"}

(* offset stands for the address registered (distinct for every keyword);  *)
(* checked records whether dup_check was on at registration and is read    *)
(* by properties only.                                                     *)
Item == [key : Name, type : ItemType, sec : Sec \cup {NULL},
         offset : 1..MaxReg, checked : BOOLEAN]

(* asked: the section and key of a lookup whose answer ended the process *)
Outcome == [how : {"running", "duplicate", "unsorted", "abort", "nullDeref"},
            asked : SUBSET (Sec \X Name)]
Ended(how, asked) == [how |-> how, asked |-> asked]
Running == outcome.how = "running"

-----------------------------------------------------------------------------
(* Sorting and searching *)

Ordered(q) == \A i, j \in DOMAIN q : i < j => q[i].key <= q[j].key

(* qsort with scapar_item_key_comp: some ordered permutation of q; which   *)
(* one is open when keys are equal.                                        *)
SortOrders(q) ==
  {p \in [DOMAIN q -> DOMAIN q] :
     \A i, j \in DOMAIN q : i < j => p[i] # p[j] /\ q[p[i]].key <= q[p[j]].key}
OrderedVersions(q) == {[i \in DOMAIN q |-> q[p[i]]] : p \in SortOrders(q)}

(* bsearch: the set of results allowed for key k, {} standing for NULL.    *)
(* On an array that is out of order a present key may be missed.           *)
Matches(q, k) == {q[i] : i \in {j \in DOMAIN q : q[j].key = k}}
BSearch(q, k) ==
  {{x} : x \in Matches(q, k)}
    \cup (IF Matches(q, k) # {} /\ Ordered(q) THEN {} ELSE {{}})

(* The sections scapar_sec_sort(s) finds unsorted.  The recursion goes     *)
(* through the SCAPAR_T_SEC items of a section it has just sorted, and     *)
(* stops at sorted sections and at those with at most one keyword.         *)
Children(q)   == {q[i].sec : i \in {j \in DOMAIN q : q[j].type = "SEC"}}
Visited(its, srt, s) ==
  LET Closed(S) == \A p \in S : Len(its[p]) > 1 =>
                     \A c \in Children(its[p]) : srt[c] \/ c \in S
  IN  IF srt[s] THEN {}
      ELSE {t \in Sec : \A S \in SUBSET Sec : s \in S /\ Closed(S) => t \in S}

(* scapar_sec_sort(s) started with arrays its and flags srt; qsort is      *)
(* called for more than one keyword only.                                  *)
SecSort(its, srt, s) ==
  LET V == Visited(its, srt, s)
      Q == {t \in V : Len(its[t]) > 1}
  IN  /\ sorted' = [t \in Sec |-> srt[t] \/ t \in V]
      /\ \E f \in [Q -> UNION {OrderedVersions(its[t]) : t \in Q}] :
           /\ \A t \in Q : f[t] \in OrderedVersions(its[t])
           /\ items' = [t \in Sec |-> IF t \in Q THEN f[t] ELSE its[t]]

(* scapar_sec_adjust_space on a section with n keywords and a slots *)
AdjustLate(a, n)  == IF n > a THEN a + Grow ELSE a
AdjustSpace(a, n) == IF n >= a THEN a + Grow ELSE a

(* The keywords after it: realloc keeps them, only new slots are zeroed. *)
MovedZeroed(s) == IF Len(items[s]) >= alloc[s] THEN <<>> ELSE items[s]
Moved(s)       == items[s]

-----------------------------------------------------------------------------
(* Registration *)

Ky(name) == IF cs_mark THEN name ELSE Lower[name]

(* Items of sections, and of vectors of sections, own a fresh SCAPAR_SEC. *)
SecOnlyChild(type) == IF type = "SEC" THEN nsec + 1 ELSE NULL
Child(type)        == IF type = "VALUE" THEN NULL ELSE nsec + 1
NewItem(name, type) ==
  [key |-> Trim[Ky(name)], type |-> type, sec |-> Child(type),
   offset |-> nreg + 1, checked |-> dup_check]

SharedSec(type) == IF type = "SEC" THEN nsec + 1 ELSE nsec
NextSec(type)   == IF type = "VALUE" THEN nsec ELSE nsec + 1

(* s->sorted = SCAPAR_FALSE *)
KeepSorted(s)  == sorted
MarkUnsorted(s) == [sorted EXCEPT ![s] = FALSE]

(* Sorting for checking dup *)
SortsRootOnly(s) == dup_check /\ s = Root
SortsNow(s)      == dup_check

(* The tail of scapar_sec_register: append, then sort if need be. *)
Insert(s, name, type) ==
  LET its == [items EXCEPT ![s] = Append(Moved(s), NewItem(name, type))]
  IN  /\ alloc' = [alloc EXCEPT ![s] = AdjustSpace(@, Len(items[s]))]
      /\ nsec' = NextSec(type)
      /\ nreg' = nreg + 1
      /\ IF SortsNow(s) THEN SecSort(its, MarkUnsorted(s), s)
                        ELSE items' = its /\ sorted' = MarkUnsorted(s)

(* The duplicate query is made, on the key before its spaces are removed,  *)
(* only for a section that has keywords.                                   *)
QueriedIfMany(s) == dup_check /\ Len(items[s]) > 1
Queried(s)       == dup_check /\ Len(items[s]) > 0

Room(type) == nreg < MaxReg /\ (type # "VALUE" => nsec < MaxSec)

Exit(how, asked) ==
  /\ outcome' = Ended(how, asked)
  /\ UNCHANGED <<items, alloc, sorted, nsec, nreg, rsorted, dup_check,
                 cs_mark, handles>>

(* scapar_sec_query inside the registration exits on an unsorted section. *)
RegisterUnsorted(s) ==
  /\ Running
  /\ Queried(s) /\ ~sorted[s]
  /\ Exit("unsorted", {})

RegisterDuplicate(s, name) ==
  /\ Running
  /\ Queried(s) /\ sorted[s]
  /\ \E h \in BSearch(items[s], Ky(name)) : h # {}
  /\ Exit("duplicate", {<<s, Ky(name)>>})

(* The duplicate query lets the registration go on. *)
Accepted(s, name) ==
  Queried(s) => sorted[s] /\ {} \in BSearch(items[s], Ky(name))

(* SCAPAR_T_VEC without an info: the assertion fails. *)
RegisterVecWithoutInfo(s, name) ==
  /\ Running
  /\ Accepted(s, name)
  /\ Exit("abort", {})

(* scapar_register and the wrappers that fix its type argument *)
Register(name, type) ==
  /\ Running /\ Room(type)
  /\ Accepted(Root, name)
  /\ Insert(Root, name, type)
  /\ rsorted' = dup_check
  /\ UNCHANGED <<dup_check, cs_mark, handles, outcome>>

(* scapar_sec_register_offset on a section the program got from the library *)
SecRegisterOffset(s, name, type) ==
  /\ Running /\ Room(type)
  /\ s \in handles
  /\ Accepted(s, name)
  /\ Insert(s, name, type)
  /\ UNCHANGED <<rsorted, dup_check, cs_mark, handles, outcome>>

-----------------------------------------------------------------------------
(* Lookups and settings *)

(* scapar_get_section (s = Root) and scapar_sec_get_section: the section   *)
(* is sorted if need be, the key is searched as given, and the item found  *)
(* is dereferenced unchecked.                                              *)
GetSection(s, name) ==
  /\ Running
  /\ Len(items[s]) > 0
  /\ SecSort(items, sorted, s)
  /\ \E h \in BSearch(items'[s], name) :
       /\ outcome' = IF h = {} THEN Ended("nullDeref", {<<s, name>>}) ELSE outcome
       /\ handles' = handles \cup {x.sec : x \in {y \in h : y.type = "SEC"}}
  /\ UNCHANGED <<alloc, nsec, nreg, rsorted, dup_check, cs_mark>>

(* assert(s->size > 0) in the lookups that make it *)
LookupInEmpty(s) ==
  /\ Running
  /\ items[s] = <<>>
  /\ Exit("abort", {})

(* scapar_sort *)
Sort ==
  /\ Running
  /\ IF rsorted THEN UNCHANGED <<items, sorted>> ELSE SecSort(items, sorted, Root)
  /\ rsorted' = TRUE
  /\ UNCHANGED <<alloc, nsec, nreg, dup_check, cs_mark, handles, outcome>>

(* A query answers with an item, of which a program reads the section      *)
(* pointer: the way to the section of a vector of sections.                *)
Answered(s, name) ==
  \E h \in BSearch(items'[s], name) :
    handles' = handles \cup {x.sec : x \in {y \in h : y.sec # NULL}}

(* scapar_query: sorts on the parser's flag *)
Query(name) ==
  /\ Running
  /\ IF rsorted THEN UNCHANGED <<items, sorted>> ELSE SecSort(items, sorted, Root)
  /\ rsorted' = TRUE
  /\ Answered(Root, name)
  /\ UNCHANGED <<alloc, nsec, nreg, dup_check, cs_mark, outcome>>

(* scapar_sec_query never sorts. *)
SecQuery(s, name) ==
  /\ Running
  /\ Len(items[s]) > 0 /\ sorted[s]
  /\ UNCHANGED <<items, sorted>>
  /\ Answered(s, name)
  /\ UNCHANGED <<alloc, nsec, nreg, rsorted, dup_check, cs_mark, outcome>>

SecQueryUnsorted(s) ==
  /\ Running
  /\ Len(items[s]) > 0 /\ ~sorted[s]
  /\ Exit("unsorted", {})

Settings ==
  /\ Running
  /\ UNCHANGED <<items, alloc, sorted, nsec, nreg, rsorted, handles, outcome>>

SetDupCheck ==
  /\ Settings
  /\ dup_check' \in BOOLEAN
  /\ UNCHANGED cs_mark

SetCaseSensitive ==
  /\ Settings
  /\ cs_mark' \in BOOLEAN
  /\ UNCHANGED dup_check

(* The process is gone. *)
Terminated == ~Running /\ UNCHANGED vars

-----------------------------------------------------------------------------
Init ==
  /\ items = [s \in Sec |-> <<>>]
  /\ alloc = [s \in Sec |-> 0]
  /\ sorted = [s \in Sec |-> FALSE]
  /\ nsec = 1 /\ nreg = 0
  /\ rsorted = FALSE
  /\ dup_check = FALSE /\ cs_mark = FALSE
  /\ handles = {}
  /\ outcome = Ended("running", {})

Use ==
  \/ \E name \in Name, type \in ItemType :
       \/ Register(name, type)
       \/ \E s \in handles : SecRegisterOffset(s, name, type)
  \/ \E s \in handles \cup {Root}, name \in Name :
       \/ RegisterDuplicate(s, name)
       \/ RegisterVecWithoutInfo(s, name)
       \/ GetSection(s, name)
       \/ SecQuery(s, name)
  \/ \E s \in handles \cup {Root} :
       \/ RegisterUnsorted(s)
       \/ SecQueryUnsorted(s)
       \/ LookupInEmpty(s)
  \/ \E name \in Name : Query(name)
  \/ Sort
  \/ Terminated

Configure == SetDupCheck \/ SetCaseSensitive

Next == Use \/ Configure
Spec == Init /\ [][Next]_vars

-----------------------------------------------------------------------------
(* Properties *)

(* Every variable has the type of the C field it stands for; exactly the   *)
(* items that describe sections own one.                                   *)
TypeOK ==
  /\ items \in [Sec -> Seq(Item)]
  /\ \A s \in Sec : \A i \in DOMAIN items[s] :
       items[s][i].type = "VALUE" <=> items[s][i].sec = NULL
  /\ alloc \in [Sec -> Nat]
  /\ sorted \in [Sec -> BOOLEAN]
  /\ nsec \in 1..MaxSec /\ nreg \in 0..MaxReg
  /\ rsorted \in BOOLEAN /\ dup_check \in BOOLEAN /\ cs_mark \in BOOLEAN
  /\ handles \subseteq Sec
  /\ outcome \in Outcome

(* The flags that let lookups skip sorting are trustworthy: a section      *)
(* marked sorted is in order whatever was appended to it or sorted through *)
(* a parent since, and the parser's own flag never outlives the root's.    *)
SortedSound ==
  /\ \A s \in Sec : sorted[s] => Ordered(items[s])
  /\ rsorted => sorted[Root]

(* Section descriptors form a tree: each allocated one but the root is     *)
(* owned by exactly one item, of an older section, and a pointer handed    *)
(* out stays one of them however item arrays are moved and sorted.         *)
OnlyOwner(s, i, c) ==
  /\ items[s][i].sec = c
  /\ \A t \in Sec : \A j \in DOMAIN items[t] :
       items[t][j].sec = c => t = s /\ j = i
OwnershipTree ==
  /\ \A c \in 2..nsec :
       \E s \in 1..(c - 1) : \E i \in DOMAIN items[s] : OnlyOwner(s, i, c)
  /\ \A s \in Sec : s > nsec => items[s] = <<>>
  /\ handles \subseteq 2..nsec

(* The item array always has room for what it holds, and the step of Grow  *)
(* slots is taken only when it is full.                                    *)
CapacityOK ==
  \A s \in Sec : Len(items[s]) <= alloc[s] /\ alloc[s] < Len(items[s]) + Grow

(* dup_check keeps its promise: two keywords of a section that were both   *)
(* registered while it was on have different keys.                         *)
CheckedKeysUnique ==
  \A s \in Sec : \A i, j \in DOMAIN items[s] :
    i # j /\ items[s][i].checked /\ items[s][j].checked
      => items[s][i].key # items[s][j].key

(* A section is left to be sorted later only for a keyword registered      *)
(* while duplicates were not checked: a program that always checks never   *)
(* ends for "not sorted yet", in whichever sections it registers.          *)
UnsortedIsUnchecked ==
  \A s \in Sec : items[s] # <<>> /\ ~sorted[s] =>
    \E i \in DOMAIN items[s] : ~items[s][i].checked

(* Sorting, growing and registering never lose, repeat or alter a          *)
(* registered keyword.                                                     *)
RegistrationsSurvive ==
  [][\A s \in Sec :
       /\ Range(items[s]) \subseteq Range(items'[s])
       /\ Len(items'[s]) = Cardinality(Range(items'[s]))]_vars

(* scapar_get_section on a spelling under which a section was registered   *)
(* returns it and never dereferences NULL.                                 *)
RegisteredSectionIsFound ==
  [][\A s \in handles \cup {Root}, name \in Name :
       /\ GetSection(s, name)
       /\ \E x \in Range(items[s]) : x.type = "SEC" /\ x.key = Trim[Ky(name)]
       => outcome'.how = "running"]_vars

(* The registry implements the abstract store: whatever the arrays, flags  *)
(* and sorting do, duplicate checks and lookups are answered from exactly  *)
(* the set of keywords registered so far.                                  *)
Store == INSTANCE KeywordStore WITH
  Key <- Name,
  contents <- [s \in Sec |-> Range(items[s])],
  handed <- handles,
  checking <- dup_check
ImplementsStore == Store!Spec
=============================================================================
