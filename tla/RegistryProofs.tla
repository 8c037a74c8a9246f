--------------------------- MODULE RegistryProofs ---------------------------
(***************************************************************************)
(* Theorems about the registry, for any set of spellings and any bounds.   *)
(* Types, sorted flags and capacities are proved together, action by       *)
(* action, from what one sort and one insertion do.  Then, that nothing is *)
(* lost: arrays are only permuted and extended, the sections form a tree,  *)
(* checked keys are distinct, and the registry implements KeywordStore.    *)
(***************************************************************************)
EXTENDS Registry, FiniteSetTheorems, TLAPS

(* Exactly the items that describe sections own one, and none owns the     *)
(* root: the parser's own copy of the root's flag is kept by the functions *)
(* of the parser only, so no section pointer may lead back to the root.    *)
OwnersTyped(its) ==
  \A s \in Sec : \A i \in DOMAIN its[s] :
    /\ its[s][i].type = "VALUE" <=> its[s][i].sec = NULL
    /\ its[s][i].sec # Root
RootIsPrivate == OwnersTyped(items) /\ Root \notin handles

IInv == TypeOK /\ RootIsPrivate /\ SortedSound /\ CapacityOK

(* What qsort returns is a sequence of the items it was given, in order. *)
LEMMA OrderedVersionFacts ==
  ASSUME NEW q \in Seq(Item), NEW r \in OrderedVersions(q)
  PROVE  /\ r \in Seq(Item)
         /\ Len(r) = Len(q)
         /\ Ordered(r)
         /\ \A i \in DOMAIN r : \E j \in DOMAIN q : r[i] = q[j]
<1>1. PICK p \in SortOrders(q) : r = [i \in DOMAIN q |-> q[p[i]]]
  BY DEF OrderedVersions
<1>2. p \in [DOMAIN q -> DOMAIN q]
  BY <1>1 DEF SortOrders
<1>3. r \in [1..Len(q) -> Item]
  BY <1>1, <1>2
<1>4. r \in Seq(Item) /\ Len(r) = Len(q)
  BY <1>3
<1>5. Ordered(r)
  BY <1>1, <1>2, <1>4 DEF SortOrders, Ordered
<1>6. \A i \in DOMAIN r : r[i] = q[p[i]] /\ p[i] \in DOMAIN q
  BY <1>1, <1>2
<1> QED BY <1>4, <1>5, <1>6

(* An array of at most one keyword, which qsort is not called for. *)
LEMMA ShortIsOrdered ==
  ASSUME NEW q \in Seq(Item), Len(q) <= 1
  PROVE  Ordered(q)
BY DEF Ordered

(* scapar_sec_sort keeps every array's length and items, leaves what was   *)
(* sorted alone and marks only sections it has put in order, s among them. *)
LEMMA SecSortFacts ==
  ASSUME NEW its \in [Sec -> Seq(Item)], NEW srt \in [Sec -> BOOLEAN],
         NEW s \in Sec,
         \A t \in Sec : srt[t] => Ordered(its[t]),
         SecSort(its, srt, s)
  PROVE  /\ items' \in [Sec -> Seq(Item)]
         /\ sorted' \in [Sec -> BOOLEAN]
         /\ sorted'[s]
         /\ \A t \in Sec :
              /\ srt[t] => sorted'[t]
              /\ sorted'[t] => Ordered(items'[t])
              /\ Len(items'[t]) = Len(its[t])
              /\ \A i \in DOMAIN items'[t] :
                   \E j \in DOMAIN its[t] : items'[t][i] = its[t][j]
<1> DEFINE V == Visited(its, srt, s)
           Q == {t \in V : Len(its[t]) > 1}
<1>1. V \subseteq Sec /\ (~srt[s] => s \in V)
  BY DEF Visited
<1>2. sorted' = [t \in Sec |-> srt[t] \/ t \in V]
  BY DEF SecSort
<1>3. PICK f : /\ \A t \in Q : f[t] \in OrderedVersions(its[t])
               /\ items' = [t \in Sec |-> IF t \in Q THEN f[t] ELSE its[t]]
  BY DEF SecSort
<1>4. ASSUME NEW t \in Sec
      PROVE  /\ items'[t] \in Seq(Item)
             /\ sorted'[t] => Ordered(items'[t])
             /\ Len(items'[t]) = Len(its[t])
             /\ \A i \in DOMAIN items'[t] :
                  \E j \in DOMAIN its[t] : items'[t][i] = its[t][j]
  <2>1. CASE t \in Q
    BY <2>1, <1>3, OrderedVersionFacts
  <2>2. CASE t \notin Q
    <3>1. items'[t] = its[t]
      BY <2>2, <1>3
    <3>2. sorted'[t] => srt[t] \/ Len(its[t]) <= 1
      BY <2>2, <1>2
    <3> QED BY <3>1, <3>2, ShortIsOrdered
  <2> QED BY <2>1, <2>2
<1>5. sorted'[s] /\ \A t \in Sec : srt[t] => sorted'[t]
  BY <1>1, <1>2
<1>6. items' \in [Sec -> Seq(Item)] /\ sorted' \in [Sec -> BOOLEAN]
  BY <1>2, <1>3, <1>4
<1> QED BY <1>4, <1>5, <1>6

(* bsearch returns nothing or an item of the array with the key asked for. *)
LEMMA BSearchFacts ==
  ASSUME NEW q \in Seq(Item), NEW k, NEW h \in BSearch(q, k)
  PROVE  \A x \in h : x \in Item /\ \E j \in DOMAIN q : x = q[j] /\ x.key = k
<1>1. \A x \in Matches(q, k) : \E j \in DOMAIN q : x = q[j] /\ x.key = k
  BY DEF Matches
<1>2. h = {} \/ \E x \in Matches(q, k) : h = {x}
  BY DEF BSearch
<1> QED BY <1>1, <1>2

(* An array with the same items under other indices keeps that. *)
LEMMA SameItemsTyped ==
  ASSUME NEW its, NEW new, OwnersTyped(its),
         \A t \in Sec : \A i \in DOMAIN new[t] :
           \E j \in DOMAIN its[t] : new[t][i] = its[t][j]
  PROVE  OwnersTyped(new)
<1> SUFFICES ASSUME NEW s \in Sec, NEW i \in DOMAIN new[s]
             PROVE  /\ new[s][i].type = "VALUE" <=> new[s][i].sec = NULL
                    /\ new[s][i].sec # Root
  BY DEF OwnersTyped
<1>1. PICK j \in DOMAIN its[s] : new[s][i] = its[s][j]
  OBVIOUS
<1> QED BY <1>1 DEF OwnersTyped

(* A sort of the present arrays preserves what IInv says of them. *)
LEMMA SortKeepsInv ==
  ASSUME IInv, NEW s \in Sec, SecSort(items, sorted, s)
  PROVE  /\ items' \in [Sec -> Seq(Item)]
         /\ OwnersTyped(items')
         /\ sorted' \in [Sec -> BOOLEAN]
         /\ sorted'[s]
         /\ \A t \in Sec : /\ sorted[t] => sorted'[t]
                           /\ sorted'[t] => Ordered(items'[t])
                           /\ Len(items'[t]) = Len(items[t])
<1>1. /\ items \in [Sec -> Seq(Item)] /\ sorted \in [Sec -> BOOLEAN]
      /\ \A t \in Sec : sorted[t] => Ordered(items[t])
      /\ OwnersTyped(items)
  BY DEF IInv, TypeOK, SortedSound, RootIsPrivate
<1>2. /\ items' \in [Sec -> Seq(Item)]
      /\ sorted' \in [Sec -> BOOLEAN]
      /\ sorted'[s]
      /\ \A t \in Sec :
           /\ sorted[t] => sorted'[t]
           /\ sorted'[t] => Ordered(items'[t])
           /\ Len(items'[t]) = Len(items[t])
           /\ \A i \in DOMAIN items'[t] :
                \E j \in DOMAIN items[t] : items'[t][i] = items[t][j]
  BY <1>1, SecSortFacts
<1>3. OwnersTyped(items')
  BY <1>1, <1>2, SameItemsTyped
<1> QED BY <1>2, <1>3

(* Appending keeps the items there were and puts the new one last. *)
LEMMA AppendFacts ==
  ASSUME NEW q \in Seq(Item), NEW x \in Item
  PROVE  /\ Len(Append(q, x)) = Len(q) + 1
         /\ Append(q, x)[Len(q) + 1] = x
         /\ \A i \in DOMAIN q : Append(q, x)[i] = q[i]
         /\ DOMAIN Append(q, x) = DOMAIN q \cup {Len(q) + 1}
<1>1. Len(q) \in Nat /\ DOMAIN q = 1..Len(q)
  OBVIOUS
<1>2. Append(q, x) \in Seq(Item) /\ Len(Append(q, x)) = Len(q) + 1
  OBVIOUS
<1>3. DOMAIN Append(q, x) = DOMAIN q \cup {Len(q) + 1}
  <2>1. DOMAIN Append(q, x) = 1..(Len(q) + 1)
    BY <1>2
  <2> QED BY <1>1, <2>1
<1>4. Append(q, x)[Len(q) + 1] = x
  OBVIOUS
<1>5. \A i \in DOMAIN q : Append(q, x)[i] = q[i]
  OBVIOUS
<1> QED BY <1>2, <1>3, <1>4, <1>5

(* An insertion preserves it too, and leaves room in the array it extends. *)
LEMMA InsertKeepsInv ==
  ASSUME IInv, NEW s \in Sec, NEW name \in Name, NEW type \in ItemType,
         Room(type), Insert(s, name, type)
  PROVE  /\ items' \in [Sec -> Seq(Item)]
         /\ OwnersTyped(items')
         /\ sorted' \in [Sec -> BOOLEAN]
         /\ \A t \in Sec : sorted'[t] => Ordered(items'[t])
         /\ dup_check => sorted'[s]
         /\ alloc' \in [Sec -> Nat]
         /\ \A t \in Sec : /\ Len(items'[t]) <= alloc'[t]
                           /\ alloc'[t] < Len(items'[t]) + Grow
         /\ nsec' \in 1..MaxSec /\ nreg' \in 0..MaxReg
<1> DEFINE it  == NewItem(name, type)
           its == [items EXCEPT ![s] = Append(items[s], it)]
           srt == [sorted EXCEPT ![s] = FALSE]
<1> USE RegistryAssumption DEF Sec, NULL, Root
<1>1. /\ items \in [Sec -> Seq(Item)] /\ sorted \in [Sec -> BOOLEAN]
      /\ alloc \in [Sec -> Nat] /\ OwnersTyped(items)
      /\ nsec \in 1..MaxSec /\ nreg \in 0..MaxReg
      /\ \A t \in Sec : sorted[t] => Ordered(items[t])
      /\ \A t \in Sec : /\ Len(items[t]) <= alloc[t]
                        /\ alloc[t] < Len(items[t]) + Grow
  BY DEF IInv, TypeOK, SortedSound, CapacityOK, RootIsPrivate
<1>2. it \in Item /\ (it.type = "VALUE" <=> it.sec = NULL) /\ it.sec # Root
  <2>1. Trim[Ky(name)] \in Name
    BY DEF Ky
  <2>2. /\ Child(type) \in Sec \cup {NULL} /\ Child(type) # Root
        /\ type = "VALUE" <=> Child(type) = NULL
    BY <1>1 DEF Child, Room
  <2>3. nreg + 1 \in 1..MaxReg
    BY <1>1 DEF Room
  <2>4. dup_check \in BOOLEAN
    BY DEF IInv, TypeOK
  <2> QED BY <2>1, <2>2, <2>3, <2>4 DEF NewItem, Item
<1>3. nsec' \in 1..MaxSec /\ nreg' \in 0..MaxReg
  BY <1>1 DEF Insert, NextSec, Room
<1>4. /\ its \in [Sec -> Seq(Item)]
      /\ OwnersTyped(its)
      /\ Len(its[s]) = Len(items[s]) + 1
      /\ \A t \in Sec \ {s} : its[t] = items[t]
  <2>1. /\ its \in [Sec -> Seq(Item)]
        /\ its[s] = Append(items[s], it)
        /\ \A t \in Sec \ {s} : its[t] = items[t]
    BY <1>1, <1>2
  <2>2. /\ Len(its[s]) = Len(items[s]) + 1
        /\ its[s][Len(items[s]) + 1] = it
        /\ \A i \in DOMAIN items[s] : its[s][i] = items[s][i]
        /\ DOMAIN its[s] = DOMAIN items[s] \cup {Len(items[s]) + 1}
    <3>1. items[s] \in Seq(Item)
      BY <1>1
    <3> HIDE DEF it, its
    <3> QED BY <3>1, <1>2, <2>1, AppendFacts
  <2>3. OwnersTyped(its)
    <3> SUFFICES ASSUME NEW t \in Sec, NEW i \in DOMAIN its[t]
                 PROVE  /\ its[t][i].type = "VALUE" <=> its[t][i].sec = NULL
                        /\ its[t][i].sec # Root
      BY DEF OwnersTyped
    <3>1. CASE t = s /\ i = Len(items[s]) + 1
      BY <3>1, <2>2, <1>2
    <3>2. CASE t = s /\ i \in DOMAIN items[s]
      BY <3>2, <2>2, <1>1 DEF OwnersTyped
    <3>3. CASE t # s
      BY <3>3, <2>1, <1>1 DEF OwnersTyped
    <3> QED BY <3>1, <3>2, <3>3, <2>2
  <2> QED BY <2>1, <2>2, <2>3
<1>5. srt \in [Sec -> BOOLEAN] /\ \A t \in Sec : srt[t] => Ordered(its[t])
  BY <1>1, <1>4
<1>6. /\ alloc' = [alloc EXCEPT ![s] = AdjustSpace(alloc[s], Len(items[s]))]
      /\ IF dup_check THEN SecSort(its, srt, s) ELSE items' = its /\ sorted' = srt
  BY DEF Insert, SortsNow, MarkUnsorted, Moved
<1>7. /\ items' \in [Sec -> Seq(Item)]
      /\ sorted' \in [Sec -> BOOLEAN]
      /\ \A t \in Sec : sorted'[t] => Ordered(items'[t])
      /\ dup_check => sorted'[s]
      /\ \A t \in Sec : Len(items'[t]) = Len(its[t])
      /\ OwnersTyped(items')
  <2>1. CASE dup_check
    <3>1. SecSort(its, srt, s)
      BY <1>6, <2>1
    <3> HIDE DEF its, srt
    <3>2. /\ items' \in [Sec -> Seq(Item)]
          /\ sorted' \in [Sec -> BOOLEAN]
          /\ sorted'[s]
          /\ \A t \in Sec :
               /\ sorted'[t] => Ordered(items'[t])
               /\ Len(items'[t]) = Len(its[t])
               /\ \A i \in DOMAIN items'[t] :
                    \E j \in DOMAIN its[t] : items'[t][i] = its[t][j]
      BY <1>4, <1>5, <3>1, SecSortFacts, ZenonT(60)
    <3>3. OwnersTyped(items')
      BY <1>4, <3>2, SameItemsTyped
    <3> QED BY <3>2, <3>3
  <2>2. CASE ~dup_check
    BY <2>2, <1>4, <1>5, <1>6
  <2> QED BY <2>1, <2>2
<1>8. /\ alloc' \in [Sec -> Nat]
      /\ \A t \in Sec : /\ Len(items'[t]) <= alloc'[t]
                        /\ alloc'[t] < Len(items'[t]) + Grow
  <2>1. AdjustSpace(alloc[s], Len(items[s])) \in Nat
    BY <1>1 DEF AdjustSpace
  <2>2. /\ Len(items[s]) + 1 <= AdjustSpace(alloc[s], Len(items[s]))
        /\ AdjustSpace(alloc[s], Len(items[s])) < Len(items[s]) + 1 + Grow
    BY <1>1 DEF AdjustSpace
  <2>3. \A t \in Sec \ {s} : alloc'[t] = alloc[t] /\ Len(items'[t]) = Len(items[t])
    BY <1>1, <1>4, <1>6, <1>7
  <2>4. /\ alloc'[s] = AdjustSpace(alloc[s], Len(items[s]))
        /\ Len(items'[s]) = Len(items[s]) + 1
    BY <1>1, <1>4, <1>6, <1>7
  <2>5. alloc' \in [Sec -> Nat]
    BY <1>1, <1>6, <2>1
  <2> QED BY <1>1, <2>2, <2>3, <2>4, <2>5
<1> QED BY <1>3, <1>7, <1>8
(* Inserting into one section never clears the flag of another. *)
LEMMA InsertKeepsSorted ==
  ASSUME IInv, NEW s \in Sec, NEW name, NEW type, Insert(s, name, type),
         NEW t \in Sec, t # s, sorted[t]
  PROVE  sorted'[t]
<1>1. sorted \in [Sec -> BOOLEAN]
  BY DEF IInv, TypeOK
<1> DEFINE srt == [sorted EXCEPT ![s] = FALSE]
<1>2. srt \in [Sec -> BOOLEAN] /\ srt[t]
  BY <1>1
<1>3. CASE dup_check
  BY <1>2, <1>3 DEF Insert, SortsNow, MarkUnsorted, SecSort
<1>4. CASE ~dup_check
  BY <1>2, <1>4 DEF Insert, SortsNow, MarkUnsorted
<1> QED BY <1>3, <1>4

(* scapar_init leaves every section empty and unsorted. *)
LEMMA InitInv == Init => IInv
<1> USE RegistryAssumption DEF Sec, NULL, Root
<1> SUFFICES ASSUME Init PROVE IInv
  OBVIOUS
<1>1. TypeOK
  <2>1. /\ items \in [Sec -> Seq(Item)]
        /\ \A s \in Sec : DOMAIN items[s] = {}
    BY DEF Init
  <2>2. \A s \in Sec : \A i \in DOMAIN items[s] :
          items[s][i].type = "VALUE" <=> items[s][i].sec = NULL
    BY <2>1
  <2>3. alloc \in [Sec -> Nat] /\ sorted \in [Sec -> BOOLEAN]
    BY DEF Init
  <2>4. nsec \in 1..MaxSec /\ nreg \in 0..MaxReg
    BY DEF Init
  <2>5. rsorted \in BOOLEAN /\ dup_check \in BOOLEAN /\ cs_mark \in BOOLEAN
    BY Zenon DEF Init
  <2>6. handles \subseteq Sec /\ outcome \in Outcome
    BY DEF Init, Ended, Outcome
  <2> QED BY <2>1, <2>2, <2>3, <2>4, <2>5, <2>6 DEF TypeOK
<1>2. SortedSound
  BY DEF Init, SortedSound
<1>3. CapacityOK
  BY DEF Init, CapacityOK
<1>4. RootIsPrivate
  BY DEF Init, RootIsPrivate, OwnersTyped
<1> QED BY <1>1, <1>2, <1>3, <1>4 DEF IInv

(* A step that leaves the arrays and their flags alone cannot disturb it. *)
LEMMA QuietKeepsInv ==
  ASSUME IInv, UNCHANGED <<items, alloc, sorted, nsec, nreg, rsorted, handles>>,
         dup_check' \in BOOLEAN, cs_mark' \in BOOLEAN, outcome' \in Outcome
  PROVE  IInv'
<1>1. TypeOK'
  BY DEF IInv, TypeOK
<1>2. SortedSound'
  BY DEF IInv, SortedSound
<1>3. CapacityOK'
  BY DEF IInv, CapacityOK
<1>4. RootIsPrivate'
  BY DEF IInv, RootIsPrivate, OwnersTyped
<1> QED BY <1>1, <1>2, <1>3, <1>4 DEF IInv

(* Nor does a call that ends the process. *)
LEMMA ExitKeepsInv ==
  ASSUME IInv, NEW how, NEW asked, Ended(how, asked) \in Outcome,
         Exit(how, asked)
  PROVE  IInv'
<1>1. dup_check \in BOOLEAN /\ cs_mark \in BOOLEAN
  BY DEF IInv, TypeOK
<1> QED BY <1>1, QuietKeepsInv DEF Exit

(* A lookup: it sorts section s and may hand out sections it found. *)
LEMMA LookupKeepsInv ==
  ASSUME IInv, NEW s \in Sec,
         \/ SecSort(items, sorted, s)
         \/ sorted[s] /\ UNCHANGED <<items, sorted>>,
         rsorted' = rsorted \/ (s = Root /\ rsorted' = TRUE),
         Root \notin handles',
         UNCHANGED <<alloc, nsec, nreg, dup_check, cs_mark>>,
         handles' \subseteq Sec, outcome' \in Outcome
  PROVE  IInv'
<1> USE RegistryAssumption DEF Sec, NULL, Root
<1>1. /\ items' \in [Sec -> Seq(Item)]
      /\ OwnersTyped(items')
      /\ sorted' \in [Sec -> BOOLEAN]
      /\ sorted'[s]
      /\ \A t \in Sec : /\ sorted[t] => sorted'[t]
                        /\ sorted'[t] => Ordered(items'[t])
                        /\ Len(items'[t]) = Len(items[t])
  <2>1. CASE SecSort(items, sorted, s)
    BY <2>1, SortKeepsInv
  <2>2. CASE sorted[s] /\ UNCHANGED <<items, sorted>>
    BY <2>2 DEF IInv, TypeOK, SortedSound, RootIsPrivate, OwnersTyped
  <2> QED BY <2>1, <2>2
<1>2. TypeOK'
  BY <1>1 DEF IInv, TypeOK, OwnersTyped
<1>3. SortedSound'
  <2>1. CASE s = Root
    BY <1>1, <2>1 DEF SortedSound
  <2>2. CASE s # Root
    <3>1. rsorted' = rsorted /\ Root \in Sec
      BY <2>2
    <3>2. rsorted' => sorted'[Root]
      BY <1>1, <3>1 DEF IInv, SortedSound
    <3> QED BY <1>1, <3>2 DEF SortedSound
  <2> QED BY <2>1, <2>2
<1>4. CapacityOK'
  BY <1>1 DEF IInv, CapacityOK
<1>5. RootIsPrivate'
  BY <1>1 DEF RootIsPrivate
<1> QED BY <1>2, <1>3, <1>4, <1>5 DEF IInv

(* A registration: the parser's flag is cleared unless the root is sorted. *)
LEMMA RegistrationKeepsInv ==
  ASSUME IInv, NEW s \in Sec, NEW name \in Name, NEW type \in ItemType,
         Room(type), Insert(s, name, type),
         (s = Root /\ rsorted' = dup_check) \/ (s # Root /\ rsorted' = rsorted),
         UNCHANGED <<dup_check, cs_mark, handles, outcome>>
  PROVE  IInv'
<1> USE RegistryAssumption DEF Sec, NULL, Root
<1> DEFINE P == /\ items' \in [Sec -> Seq(Item)]
                /\ OwnersTyped(items')
                /\ sorted' \in [Sec -> BOOLEAN]
                /\ \A t \in Sec : sorted'[t] => Ordered(items'[t])
                /\ dup_check => sorted'[s]
                /\ alloc' \in [Sec -> Nat]
                /\ \A t \in Sec : /\ Len(items'[t]) <= alloc'[t]
                                  /\ alloc'[t] < Len(items'[t]) + Grow
                /\ nsec' \in 1..MaxSec /\ nreg' \in 0..MaxReg
<1>1. P
  BY InsertKeepsInv
<1>2. TypeOK'
  BY <1>1 DEF IInv, TypeOK, OwnersTyped
<1>3. SortedSound'
  <2>1. CASE s = Root
    BY <1>1, <2>1 DEF SortedSound
  <2>2. CASE s # Root
    <3>1. sorted[Root] => sorted'[Root]
      BY <2>2, InsertKeepsSorted
    <3> QED BY <1>1, <2>2, <3>1 DEF IInv, SortedSound
  <2> QED BY <2>1, <2>2
<1>4. CapacityOK'
  BY <1>1 DEF CapacityOK
<1>5. RootIsPrivate'
  BY <1>1 DEF IInv, RootIsPrivate
<1> QED BY <1>2, <1>3, <1>4, <1>5 DEF IInv

(* Either query, which answers with an item of s *)
QueryOf(s, name) == (s = Root /\ Query(name)) \/ SecQuery(s, name)

(* Every call of the interface, whatever its arguments, preserves IInv. *)
LEMMA NextKeepsInv == IInv /\ [Next]_vars => IInv'
<1> SUFFICES ASSUME IInv, [Next]_vars PROVE IInv'
  OBVIOUS
<1> USE RegistryAssumption DEF Sec, Root
<1>1. /\ handles \subseteq Sec \ {Root} /\ outcome \in Outcome /\ Root \in Sec
      /\ dup_check \in BOOLEAN /\ cs_mark \in BOOLEAN
  BY DEF IInv, TypeOK, RootIsPrivate
<1>2. ASSUME NEW name \in Name, NEW type \in ItemType, Register(name, type)
      PROVE  IInv'
  BY <1>1, <1>2, RegistrationKeepsInv DEF Register
<1>3. ASSUME NEW s \in handles, NEW name \in Name, NEW type \in ItemType,
             SecRegisterOffset(s, name, type)
      PROVE  IInv'
  BY <1>1, <1>3, RegistrationKeepsInv DEF SecRegisterOffset
<1>4. ASSUME NEW s \in Sec, NEW name \in Name, GetSection(s, name)
      PROVE  IInv'
  <2>1. SecSort(items, sorted, s)
    BY <1>4 DEF GetSection
  <2>2. items'[s] \in Seq(Item)
    BY <2>1, SortKeepsInv
  <2>3. handles' \subseteq Sec \ {Root} /\ outcome' \in Outcome
    <3>1. PICK h \in BSearch(items'[s], name) :
            /\ outcome' = IF h = {} THEN Ended("nullDeref", {<<s, name>>})
                          ELSE outcome
            /\ handles' = handles \cup {x.sec : x \in {y \in h : y.type = "SEC"}}
      BY <1>4 DEF GetSection
    <3>2. \A y \in h : y \in Item /\ \E j \in DOMAIN items'[s] : y = items'[s][j]
      BY <2>2, BSearchFacts
    <3>3. \A y \in h : y.type = "SEC" => y.sec \in Sec \ {Root}
      <4>1. OwnersTyped(items')
        BY <2>1, SortKeepsInv
      <4> QED BY <3>2, <4>1, SMTT(30) DEF OwnersTyped, Item, NULL
    <3>4. Ended("nullDeref", {<<s, name>>}) \in Outcome
      BY DEF Ended, Outcome
    <3> QED BY <1>1, <3>1, <3>3, <3>4
  <2> QED BY <1>4, <2>1, <2>3, LookupKeepsInv DEF GetSection
<1>5. ASSUME NEW s \in Sec, NEW name \in Name, QueryOf(s, name)
      PROVE  IInv'
  <2>1. \/ SecSort(items, sorted, s)
        \/ UNCHANGED <<items, sorted>>
    BY <1>5 DEF QueryOf, Query, SecQuery
  <2>2. items'[s] \in Seq(Item) /\ OwnersTyped(items')
    <3>1. CASE SecSort(items, sorted, s)
      BY <1>1, <3>1, SortKeepsInv
    <3>2. CASE UNCHANGED <<items, sorted>>
      BY <1>1, <3>2 DEF IInv, TypeOK, RootIsPrivate, OwnersTyped
    <3> QED BY <2>1, <3>1, <3>2
  <2>3. handles' \subseteq Sec \ {Root}
    <3>1. PICK h \in BSearch(items'[s], name) :
            handles' = handles \cup {x.sec : x \in {y \in h : y.sec # NULL}}
      BY <1>5 DEF QueryOf, Query, SecQuery, Answered
    <3>2. \A y \in h : y \in Item /\ \E j \in DOMAIN items'[s] : y = items'[s][j]
      BY <2>2, BSearchFacts
    <3>3. \A y \in h : y.sec # NULL => y.sec \in Sec \ {Root}
      BY <1>1, <2>2, <3>2 DEF OwnersTyped, Item, NULL
    <3> QED BY <1>1, <3>1, <3>3
  <2>4. CASE s = Root /\ Query(name)
    <3>1. rsorted => sorted[Root]
      BY DEF IInv, SortedSound
    <3> QED BY <1>1, <2>3, <2>4, <3>1, LookupKeepsInv DEF Query
  <2>5. CASE SecQuery(s, name)
    BY <1>1, <2>3, <2>5, LookupKeepsInv DEF SecQuery
  <2> QED BY <1>5, <2>4, <2>5 DEF QueryOf
<1>6. CASE Sort
  <2>1. rsorted => sorted[Root]
    BY DEF IInv, SortedSound
  <2> QED BY <1>1, <1>6, <2>1, LookupKeepsInv DEF Sort
<1>7. ASSUME NEW s \in Sec, \/ RegisterUnsorted(s) \/ SecQueryUnsorted(s)
                            \/ LookupInEmpty(s)
      PROVE  IInv'
  <2>1. Ended("unsorted", {}) \in Outcome /\ Ended("abort", {}) \in Outcome
    BY DEF Ended, Outcome
  <2> QED BY <1>7, <2>1, ExitKeepsInv
          DEF RegisterUnsorted, SecQueryUnsorted, LookupInEmpty
<1>8. ASSUME NEW s \in Sec, NEW name \in Name,
             RegisterDuplicate(s, name) \/ RegisterVecWithoutInfo(s, name)
      PROVE  IInv'
  <2>1. Ky(name) \in Name
    BY DEF Ky
  <2>2. /\ Ended("duplicate", {<<s, Ky(name)>>}) \in Outcome
        /\ Ended("abort", {}) \in Outcome
    BY <2>1 DEF Ended, Outcome
  <2> QED BY <1>8, <2>2, ExitKeepsInv DEF RegisterDuplicate, RegisterVecWithoutInfo
<1>9. CASE Configure
  BY <1>1, <1>9, QuietKeepsInv
     DEF Configure, SetDupCheck, SetCaseSensitive, Settings
<1>10. CASE Terminated \/ UNCHANGED vars
  BY <1>1, <1>10, QuietKeepsInv DEF Terminated, vars
<1> QED BY <1>1, <1>2, <1>3, <1>4, <1>5, <1>6, <1>7, <1>8, <1>9, <1>10
        DEF Next, Use, QueryOf

(* The three hold together in every reachable state. *)
LEMMA SpecInv == Spec => []IInv
BY InitInv, NextKeepsInv, PTL DEF Spec

(* Whatever the program registers and looks up, the fields of the registry *)
(* keep their types, and a keyword owns a section if it describes one.     *)
THEOREM RegistryTyped == Spec => []TypeOK
<1>1. IInv => TypeOK
  BY DEF IInv
<1> QED BY <1>1, SpecInv, PTL

(* A sorted flag is never set on an array that is out of order, so the     *)
(* binary searches that rely on it are answered correctly.                 *)
THEOREM RegistrySorted == Spec => []SortedSound
<1>1. IInv => SortedSound
  BY DEF IInv
<1> QED BY <1>1, SpecInv, PTL

(* scapar_sec_adjust_space always leaves a slot for the keyword registered *)
(* next, for every growth step.                                            *)
THEOREM RegistryCapacity == Spec => []CapacityOK
<1>1. IInv => CapacityOK
  BY DEF IInv
<1> QED BY <1>1, SpecInv, PTL

-----------------------------------------------------------------------------
(* A section that is still unsorted after a sort was so before it, and its *)
(* array has not been touched.                                             *)
LEMMA UnsortedUntouched ==
  ASSUME NEW its, NEW srt \in [Sec -> BOOLEAN], NEW s \in Sec,
         SecSort(its, srt, s), NEW t \in Sec, ~sorted'[t]
  PROVE  ~srt[t] /\ t # s /\ items'[t] = its[t]
<1> DEFINE V == Visited(its, srt, s)
           Q == {u \in V : Len(its[u]) > 1}
<1>1. ~srt[s] => s \in V
  BY DEF Visited
<1>2. sorted' = [u \in Sec |-> srt[u] \/ u \in V]
  BY DEF SecSort
<1>3. PICK f : items' = [u \in Sec |-> IF u \in Q THEN f[u] ELSE its[u]]
  BY DEF SecSort
<1>4. ~srt[t] /\ t \notin V
  BY <1>2
<1> QED BY <1>1, <1>3, <1>4

(* A sort of the present arrays keeps an unchecked keyword in every        *)
(* section it leaves unsorted.                                             *)
LEMMA SortKeepsUnchecked ==
  ASSUME IInv, UnsortedIsUnchecked, NEW s \in Sec,
         SecSort(items, sorted, s) \/ UNCHANGED <<items, sorted>>
  PROVE  UnsortedIsUnchecked'
<1>1. CASE UNCHANGED <<items, sorted>>
  BY <1>1 DEF UnsortedIsUnchecked
<1>2. CASE SecSort(items, sorted, s)
  <2>1. sorted \in [Sec -> BOOLEAN]
    BY DEF IInv, TypeOK
  <2> SUFFICES ASSUME NEW t \in Sec, items'[t] # <<>>, ~sorted'[t]
               PROVE  \E i \in DOMAIN items'[t] : ~items'[t][i].checked
    BY DEF UnsortedIsUnchecked
  <2>2. ~sorted[t] /\ items'[t] = items[t]
    BY <1>2, <2>1, UnsortedUntouched
  <2> QED BY <2>2 DEF UnsortedIsUnchecked
<1> QED BY <1>1, <1>2

(* So does an insertion: where duplicates are checked it sorts the section *)
(* it extends, and where they are not the new keyword is unchecked.        *)
LEMMA InsertKeepsUnchecked ==
  ASSUME IInv, UnsortedIsUnchecked, NEW s \in Sec, NEW name \in Name,
         NEW type \in ItemType, Room(type), Insert(s, name, type)
  PROVE  UnsortedIsUnchecked'
<1> DEFINE it  == NewItem(name, type)
           its == [items EXCEPT ![s] = Append(items[s], it)]
           srt == [sorted EXCEPT ![s] = FALSE]
<1> SUFFICES ASSUME NEW t \in Sec, items'[t] # <<>>, ~sorted'[t]
             PROVE  \E i \in DOMAIN items'[t] : ~items'[t][i].checked
  BY DEF UnsortedIsUnchecked
<1>1. /\ items \in [Sec -> Seq(Item)] /\ sorted \in [Sec -> BOOLEAN]
      /\ srt \in [Sec -> BOOLEAN] /\ items[s] \in Seq(Item)
  BY DEF IInv, TypeOK
<1>2. IF dup_check THEN SecSort(its, srt, s) ELSE items' = its /\ sorted' = srt
  BY DEF Insert, SortsNow, MarkUnsorted, Moved
<1>3. CASE dup_check
  <2>1. ~srt[t] /\ t # s /\ items'[t] = its[t]
    <3>1. SecSort(its, srt, s)
      BY <1>2, <1>3
    <3> HIDE DEF its, srt
    <3> QED BY <1>1, <3>1, UnsortedUntouched
  <2>2. ~sorted[t] /\ items'[t] = items[t]
    BY <1>1, <2>1
  <2> QED BY <2>2 DEF UnsortedIsUnchecked
<1>4. CASE ~dup_check /\ t # s
  <2>1. ~sorted[t] /\ items'[t] = items[t]
    BY <1>1, <1>2, <1>4
  <2> QED BY <2>1 DEF UnsortedIsUnchecked
<1>5. CASE ~dup_check /\ t = s
  <2>1. it.checked = dup_check
    BY DEF NewItem
  <2>2. items'[s] = Append(items[s], it)
    BY <1>1, <1>2, <1>5
  <2>3. Len(items[s]) + 1 \in DOMAIN items'[s] /\ items'[s][Len(items[s]) + 1] = it
    <3> HIDE DEF it
    <3> QED BY <1>1, <2>2
  <2> QED BY <1>5, <2>1, <2>3
<1> QED BY <1>3, <1>4, <1>5

(* No call leaves a section unsorted that has checked keywords only. *)
LEMMA NextKeepsUnchecked ==
  IInv /\ UnsortedIsUnchecked /\ [Next]_vars => UnsortedIsUnchecked'
<1> SUFFICES ASSUME IInv, UnsortedIsUnchecked, [Next]_vars
             PROVE  UnsortedIsUnchecked'
  OBVIOUS
<1> USE RegistryAssumption DEF Sec, Root
<1>1. handles \subseteq Sec /\ Root \in Sec
  BY DEF IInv, TypeOK
<1>2. ASSUME NEW name \in Name, NEW type \in ItemType, Register(name, type)
      PROVE  UnsortedIsUnchecked'
  BY <1>1, <1>2, InsertKeepsUnchecked DEF Register
<1>3. ASSUME NEW s \in handles, NEW name \in Name, NEW type \in ItemType,
             SecRegisterOffset(s, name, type)
      PROVE  UnsortedIsUnchecked'
  BY <1>1, <1>3, InsertKeepsUnchecked DEF SecRegisterOffset
<1>4. ASSUME NEW s \in Sec, NEW name \in Name, GetSection(s, name)
      PROVE  UnsortedIsUnchecked'
  BY <1>4, SortKeepsUnchecked DEF GetSection
<1>5. ASSUME NEW s \in Sec, NEW name \in Name, QueryOf(s, name)
      PROVE  UnsortedIsUnchecked'
  <2>1. CASE SecSort(items, sorted, s)
    BY <1>1, <2>1, SortKeepsUnchecked
  <2>2. CASE UNCHANGED <<items, sorted>>
    BY <2>2 DEF UnsortedIsUnchecked
  <2> QED BY <1>5, <2>1, <2>2 DEF QueryOf, Query, SecQuery
<1>6. CASE Sort
  BY <1>1, <1>6, SortKeepsUnchecked DEF Sort
<1>7. ASSUME UNCHANGED <<items, sorted>>
      PROVE  UnsortedIsUnchecked'
  BY <1>7 DEF UnsortedIsUnchecked
<1>8. ASSUME NEW s \in Sec, \/ RegisterUnsorted(s) \/ SecQueryUnsorted(s)
                            \/ LookupInEmpty(s)
      PROVE  UnsortedIsUnchecked'
  BY <1>7, <1>8 DEF RegisterUnsorted, SecQueryUnsorted, LookupInEmpty, Exit
<1>9. ASSUME NEW s \in Sec, NEW name \in Name,
             RegisterDuplicate(s, name) \/ RegisterVecWithoutInfo(s, name)
      PROVE  UnsortedIsUnchecked'
  BY <1>7, <1>9 DEF RegisterDuplicate, RegisterVecWithoutInfo, Exit
<1>10. CASE Configure \/ Terminated \/ UNCHANGED vars
  BY <1>7, <1>10
     DEF Configure, SetDupCheck, SetCaseSensitive, Settings, Terminated, vars
<1> QED BY <1>1, <1>2, <1>3, <1>4, <1>5, <1>6, <1>8, <1>9, <1>10 DEF Next, Use, QueryOf

(* A program that checks for duplicates with every keyword it registers    *)
(* finds every section sorted when it queries one, at any depth, though    *)
(* the recursion of a sort stops at sorted sections and at short ones.     *)
THEOREM RegistryUnsortedIsUnchecked == Spec => []UnsortedIsUnchecked
<1>1. Init => UnsortedIsUnchecked
  BY DEF Init, UnsortedIsUnchecked
<1> QED BY <1>1, NextKeepsUnchecked, SpecInv, PTL DEF Spec
-----------------------------------------------------------------------------
(* new holds the items of old, each once, in some order. *)
Permuted(new, old) ==
  \E p \in Bijection(DOMAIN old, DOMAIN old) : new = [i \in DOMAIN old |-> old[p[i]]]

LEMMA PermutedFacts ==
  ASSUME NEW new, NEW old, Permuted(new, old)
  PROVE  /\ DOMAIN new = DOMAIN old
         /\ \E p \in [DOMAIN old -> DOMAIN old] :
              /\ \A i \in DOMAIN old : new[i] = old[p[i]]
              /\ \A i, j \in DOMAIN old : p[i] = p[j] => i = j
              /\ \A j \in DOMAIN old : \E i \in DOMAIN old : p[i] = j
         /\ Range(new) = Range(old)
<1>1. PICK p \in Bijection(DOMAIN old, DOMAIN old) : new = [i \in DOMAIN old |-> old[p[i]]]
  BY DEF Permuted
<1>2. /\ p \in [DOMAIN old -> DOMAIN old]
      /\ \A i, j \in DOMAIN old : p[i] = p[j] => i = j
      /\ \A j \in DOMAIN old : \E i \in DOMAIN old : p[i] = j
  BY DEF Bijection, Injection, Surjection, IsInjective
<1>3. DOMAIN new = DOMAIN old /\ \A i \in DOMAIN old : new[i] = old[p[i]]
  BY <1>1
<1>4. Range(new) = Range(old)
  BY <1>2, <1>3 DEF Range
<1> QED BY <1>2, <1>3, <1>4

LEMMA SamePermuted ==
  ASSUME NEW q \in Seq(Item)
  PROVE  Permuted(q, q)
<1> DEFINE p == [i \in DOMAIN q |-> i]
<1>1. p \in Bijection(DOMAIN q, DOMAIN q)
  BY DEF Bijection, Injection, Surjection, IsInjective
<1>2. q = [i \in DOMAIN q |-> q[p[i]]]
  OBVIOUS
<1> QED BY <1>1, <1>2 DEF Permuted

(* What qsort returns: an injection of the finite set of indices into      *)
(* itself reaches every index, so no item is lost.                         *)
LEMMA OrderedVersionPermutes ==
  ASSUME NEW q \in Seq(Item), NEW r \in OrderedVersions(q)
  PROVE  Permuted(r, q)
<1>1. PICK p \in SortOrders(q) : r = [i \in DOMAIN q |-> q[p[i]]]
  BY DEF OrderedVersions
<1>2. p \in [DOMAIN q -> DOMAIN q] /\ \A i, j \in DOMAIN q : i < j => p[i] # p[j]
  BY <1>1 DEF SortOrders
<1>3. DOMAIN q = 1..Len(q) /\ Len(q) \in Nat
  OBVIOUS
<1>4. \A i, j \in DOMAIN q : p[i] = p[j] => i = j
  BY <1>2, <1>3
<1>5. p \in Injection(DOMAIN q, DOMAIN q)
  BY <1>2, <1>4 DEF Injection, IsInjective
<1>6. IsFiniteSet(DOMAIN q)
  BY <1>3, FS_Interval
<1>7. p \in Surjection(DOMAIN q, DOMAIN q)
  BY <1>5, <1>6, FS_Injection
<1> QED BY <1>1, <1>5, <1>7 DEF Permuted, Bijection

(* scapar_sec_sort permutes every array, in most cases trivially. *)
LEMMA SecSortPermutes ==
  ASSUME NEW its \in [Sec -> Seq(Item)], NEW srt, NEW s \in Sec, SecSort(its, srt, s)
  PROVE  \A t \in Sec : Permuted(items'[t], its[t])
<1> DEFINE V == Visited(its, srt, s)
           Q == {t \in V : Len(its[t]) > 1}
<1>1. PICK f : /\ \A t \in Q : f[t] \in OrderedVersions(its[t])
               /\ items' = [t \in Sec |-> IF t \in Q THEN f[t] ELSE its[t]]
  BY DEF SecSort
<1> TAKE t \in Sec
<1>2. CASE t \in Q
  BY <1>1, <1>2, OrderedVersionPermutes
<1>3. CASE t \notin Q
  BY <1>1, <1>3, SamePermuted
<1> QED BY <1>2, <1>3

(* A registration appends one item and permutes. *)
Extended(s, it) == [items EXCEPT ![s] = Append(items[s], it)]
LEMMA InsertPermutes ==
  ASSUME IInv, NEW s \in Sec, NEW name \in Name, NEW type \in ItemType,
         Room(type), Insert(s, name, type)
  PROVE  /\ NewItem(name, type) \in Item
         /\ Extended(s, NewItem(name, type)) \in [Sec -> Seq(Item)]
         /\ \A t \in Sec : Permuted(items'[t], Extended(s, NewItem(name, type))[t])
<1> DEFINE it  == NewItem(name, type)
           its == Extended(s, it)
<1> USE RegistryAssumption DEF Sec, NULL, Root
<1>1. /\ items \in [Sec -> Seq(Item)] /\ nsec \in 1..MaxSec /\ nreg \in 0..MaxReg
  BY DEF IInv, TypeOK
<1>2. it \in Item
  <2>1. Trim[Ky(name)] \in Name
    BY DEF Ky
  <2>2. Child(type) \in Sec \cup {NULL}
    BY <1>1 DEF Child, Room
  <2>3. nreg + 1 \in 1..MaxReg
    BY <1>1 DEF Room
  <2>4. dup_check \in BOOLEAN
    BY DEF IInv, TypeOK
  <2> QED BY <2>1, <2>2, <2>3, <2>4 DEF NewItem, Item
<1>3. its \in [Sec -> Seq(Item)]
  <2> HIDE DEF it
  <2> QED BY <1>1, <1>2 DEF Extended
<1>4. IF dup_check THEN SecSort(its, MarkUnsorted(s), s) ELSE items' = its
  BY DEF Insert, SortsNow, Moved, Extended
<1>5. \A t \in Sec : Permuted(items'[t], its[t])
  <2> HIDE DEF its
  <2>1. CASE dup_check
    BY <1>3, <1>4, <2>1, SecSortPermutes
  <2>2. CASE ~dup_check
    BY <1>3, <1>4, <2>2, SamePermuted
  <2> QED BY <2>1, <2>2
<1> QED BY <1>2, <1>3, <1>5

-----------------------------------------------------------------------------
(* What every call does to the arrays: a registration extends one section  *)
(* the program holds, anything else at most reorders them and hands out    *)
(* sections that items own.                                                *)
Grew ==
  \E s \in handles \cup {Root}, name \in Name, type \in ItemType :
    /\ Room(type) /\ Accepted(s, name) /\ Insert(s, name, type)
    /\ UNCHANGED <<dup_check, handles, outcome>>
Reordered ==
  /\ \A t \in Sec : Permuted(items'[t], items[t])
  /\ UNCHANGED <<nsec, nreg>>
  /\ \A c \in handles' \ handles :
       \E s \in Sec : \E i \in DOMAIN items[s] : items[s][i].sec = c /\ c # NULL

LEMMA SortOrNot ==
  ASSUME IInv, NEW s \in Sec,
         SecSort(items, sorted, s) \/ UNCHANGED items
  PROVE  \A t \in Sec : Permuted(items'[t], items[t])
<1>1. items \in [Sec -> Seq(Item)]
  BY DEF IInv, TypeOK
<1>2. CASE SecSort(items, sorted, s)
  BY <1>1, <1>2, SecSortPermutes
<1>3. CASE UNCHANGED items
  BY <1>1, <1>3, SamePermuted
<1> QED BY <1>2, <1>3

(* A lookup in section s hands out sections of items of s. *)
LEMMA FoundIsOwned ==
  ASSUME IInv, NEW s \in Sec, NEW name, \A t \in Sec : Permuted(items'[t], items[t]),
         NEW h \in BSearch(items'[s], name), NEW x \in h
  PROVE  \E i \in DOMAIN items[s] : items[s][i] = x /\ x.key = name
<1>1. \E j \in DOMAIN items'[s] : items'[s][j] = x /\ x.key = name
  BY DEF BSearch, Matches
<1>2. Range(items'[s]) = Range(items[s])
  BY PermutedFacts
<1> QED BY <1>1, <1>2 DEF Range

LEMMA StepShape == IInv /\ [Next]_vars => Grew \/ Reordered
<1> SUFFICES ASSUME IInv, [Next]_vars PROVE Grew \/ Reordered
  OBVIOUS
<1> USE RegistryAssumption DEF Sec, Root
<1>1. /\ handles \subseteq Sec /\ Root \in Sec
      /\ items \in [Sec -> Seq(Item)] /\ OwnersTyped(items)
  BY DEF IInv, TypeOK, RootIsPrivate
<1>2. ASSUME NEW name \in Name, NEW type \in ItemType, Register(name, type)
      PROVE  Grew
  BY <1>1, <1>2 DEF Register, Grew
<1>3. ASSUME NEW s \in handles, NEW name \in Name, NEW type \in ItemType,
             SecRegisterOffset(s, name, type)
      PROVE  Grew
  BY <1>1, <1>3 DEF SecRegisterOffset, Grew
<1>4. ASSUME NEW s \in Sec, NEW name \in Name, GetSection(s, name)
      PROVE  Reordered
  <2>1. \A t \in Sec : Permuted(items'[t], items[t])
    BY <1>4, SortOrNot DEF GetSection
  <2>2. PICK h \in BSearch(items'[s], name) :
          handles' = handles \cup {x.sec : x \in {y \in h : y.type = "SEC"}}
    BY <1>4 DEF GetSection
  <2>3. \A x \in h : \E i \in DOMAIN items[s] : items[s][i] = x
    BY <2>1, FoundIsOwned, SMTT(30)
  <2>4. ASSUME NEW c \in handles' \ handles
        PROVE  \E i \in DOMAIN items[s] : items[s][i].sec = c /\ c # NULL
    <3>1. PICK x \in h : x.type = "SEC" /\ c = x.sec
      BY <2>2
    <3>2. PICK i \in DOMAIN items[s] : items[s][i] = x
      BY <2>3
    <3> QED BY <1>1, <3>1, <3>2 DEF OwnersTyped
  <2>5. \A c \in handles' \ handles :
          \E t \in Sec : \E i \in DOMAIN items[t] : items[t][i].sec = c /\ c # NULL
    BY <2>4
  <2>6. UNCHANGED <<nsec, nreg>>
    BY <1>4 DEF GetSection
  <2> QED BY <2>1, <2>5, <2>6 DEF Reordered
<1>5. ASSUME NEW s \in Sec, NEW name \in Name, QueryOf(s, name)
      PROVE  Reordered
  <2>1. \A t \in Sec : Permuted(items'[t], items[t])
    BY <1>1, <1>5, SortOrNot DEF QueryOf, Query, SecQuery
  <2>2. PICK h \in BSearch(items'[s], name) :
          handles' = handles \cup {x.sec : x \in {y \in h : y.sec # NULL}}
    BY <1>5 DEF QueryOf, Query, SecQuery, Answered
  <2>3. \A x \in h : \E i \in DOMAIN items[s] : items[s][i] = x
    BY <2>1, FoundIsOwned, SMTT(30)
  <2>4. ASSUME NEW c \in handles' \ handles
        PROVE  \E i \in DOMAIN items[s] : items[s][i].sec = c /\ c # NULL
    <3>1. PICK x \in h : x.sec # NULL /\ c = x.sec
      BY <2>2
    <3> QED BY <2>3, <3>1
  <2>5. \A c \in handles' \ handles :
          \E t \in Sec : \E i \in DOMAIN items[t] : items[t][i].sec = c /\ c # NULL
    BY <1>1, <2>4
  <2>6. UNCHANGED <<nsec, nreg>>
    BY <1>5 DEF QueryOf, Query, SecQuery
  <2> QED BY <2>1, <2>5, <2>6 DEF Reordered
<1>6. CASE Sort
  <2>1. \A t \in Sec : Permuted(items'[t], items[t])
    BY <1>1, <1>6, SortOrNot DEF Sort
  <2> QED BY <1>6, <2>1 DEF Reordered, Sort
<1>7. ASSUME UNCHANGED <<items, nsec, nreg, handles>>
      PROVE  Reordered
  <2>1. \A t \in Sec : Permuted(items'[t], items[t])
    BY <1>1, <1>7, SortOrNot
  <2> QED BY <1>7, <2>1 DEF Reordered
<1>8. ASSUME NEW s \in Sec, \/ RegisterUnsorted(s) \/ SecQueryUnsorted(s)
                            \/ LookupInEmpty(s)
      PROVE  Reordered
  BY <1>7, <1>8 DEF RegisterUnsorted, SecQueryUnsorted, LookupInEmpty, Exit
<1>9. ASSUME NEW s \in Sec, NEW name \in Name,
             RegisterDuplicate(s, name) \/ RegisterVecWithoutInfo(s, name)
      PROVE  Reordered
  BY <1>7, <1>9 DEF RegisterDuplicate, RegisterVecWithoutInfo, Exit
<1>10. CASE Configure \/ Terminated \/ UNCHANGED vars
  BY <1>7, <1>10
     DEF Configure, SetDupCheck, SetCaseSensitive, Settings, Terminated, vars
<1> QED BY <1>1, <1>2, <1>3, <1>4, <1>5, <1>6, <1>8, <1>9, <1>10 DEF Next, Use, QueryOf

-----------------------------------------------------------------------------
(* The items of all sections together: no two are the same keyword or own  *)
(* the same section, an owner is older than what it owns, and every        *)
(* section allocated so far but the root is owned.                         *)
Apart(its) ==
  \A s, t \in Sec : \A i \in DOMAIN its[s], j \in DOMAIN its[t] :
    \/ its[s][i].offset = its[t][j].offset
    \/ its[s][i].sec = its[t][j].sec /\ its[s][i].sec # NULL
    => s = t /\ i = j
Issued(its, ns, nr) ==
  /\ \A s \in Sec : \A i \in DOMAIN its[s] :
       /\ its[s][i].offset <= nr /\ its[s][i].sec <= ns
       /\ its[s][i].sec # NULL => s < its[s][i].sec
  /\ \A s \in Sec : s > ns => DOMAIN its[s] = {}
  /\ \A c \in 2..ns : \E s \in Sec : \E i \in DOMAIN its[s] : its[s][i].sec = c
TreeInv ==
  /\ IInv
  /\ Apart(items) /\ Issued(items, nsec, nreg)
  /\ handles \subseteq 2..nsec

LEMMA PermutedTree ==
  ASSUME NEW new, NEW old, NEW ns, NEW nr,
         \A t \in Sec : Permuted(new[t], old[t])
  PROVE  /\ Apart(old) => Apart(new)
         /\ Issued(old, ns, nr) => Issued(new, ns, nr)
<1>1. ASSUME NEW t \in Sec
      PROVE  /\ DOMAIN new[t] = DOMAIN old[t]
             /\ \E p \in [DOMAIN old[t] -> DOMAIN old[t]] :
                  /\ \A i \in DOMAIN old[t] : new[t][i] = old[t][p[i]]
                  /\ \A i, j \in DOMAIN old[t] : p[i] = p[j] => i = j
                  /\ \A j \in DOMAIN old[t] : \E i \in DOMAIN old[t] : p[i] = j
  BY PermutedFacts
<1>2. ASSUME Apart(old) PROVE Apart(new)
  <2> SUFFICES ASSUME NEW s \in Sec, NEW t \in Sec,
                      NEW i \in DOMAIN new[s], NEW j \in DOMAIN new[t],
                      \/ new[s][i].offset = new[t][j].offset
                      \/ new[s][i].sec = new[t][j].sec /\ new[s][i].sec # NULL
               PROVE  s = t /\ i = j
    BY DEF Apart
  <2>1. PICK p \in [DOMAIN old[s] -> DOMAIN old[s]] :
          /\ \A k \in DOMAIN old[s] : new[s][k] = old[s][p[k]]
          /\ \A k, m \in DOMAIN old[s] : p[k] = p[m] => k = m
    BY <1>1
  <2>2. PICK r \in [DOMAIN old[t] -> DOMAIN old[t]] :
          \A k \in DOMAIN old[t] : new[t][k] = old[t][r[k]]
    BY <1>1
  <2>3. i \in DOMAIN old[s] /\ j \in DOMAIN old[t]
    BY <1>1
  <2>4. s = t /\ p[i] = r[j]
    BY <1>2, <2>1, <2>2, <2>3 DEF Apart
  <2>5. new[s][j] = old[s][p[j]] /\ new[s][j] = old[s][r[j]] /\ j \in DOMAIN old[s]
    BY <2>1, <2>2, <2>3, <2>4
  <2>6. p[j] = r[j]
    <3>1. old[s][p[j]].offset = old[s][r[j]].offset /\ p[j] \in DOMAIN old[s] /\ r[j] \in DOMAIN old[s]
      BY <2>1, <2>2, <2>4, <2>5
    <3> QED BY <1>2, <3>1 DEF Apart
  <2> QED BY <2>1, <2>3, <2>4, <2>5, <2>6
<1>3. ASSUME Issued(old, ns, nr) PROVE Issued(new, ns, nr)
  <2>1. ASSUME NEW s \in Sec, NEW i \in DOMAIN new[s]
        PROVE  \E j \in DOMAIN old[s] : new[s][i] = old[s][j]
    BY <1>1
  <2>2. ASSUME NEW s \in Sec, NEW j \in DOMAIN old[s]
        PROVE  \E i \in DOMAIN new[s] : new[s][i] = old[s][j]
    BY <1>1
  <2>3. ASSUME NEW s \in Sec, NEW i \in DOMAIN new[s]
        PROVE  /\ new[s][i].offset <= nr /\ new[s][i].sec <= ns
               /\ new[s][i].sec # NULL => s < new[s][i].sec
    BY <1>3, <2>1 DEF Issued
  <2>4. ASSUME NEW c \in 2..ns
        PROVE  \E s \in Sec : \E i \in DOMAIN new[s] : new[s][i].sec = c
    <3>1. PICK s \in Sec : \E j \in DOMAIN old[s] : old[s][j].sec = c
      BY <1>3 DEF Issued
    <3>. PICK j \in DOMAIN old[s] : old[s][j].sec = c
      BY <3>1
    <3>2. PICK i \in DOMAIN new[s] : new[s][i] = old[s][j]
      BY <2>2
    <3> QED BY <3>1, <3>2
  <2>5. \A s \in Sec : s > ns => DOMAIN new[s] = {}
    BY <1>1, <1>3 DEF Issued
  <2> QED BY <2>3, <2>4, <2>5 DEF Issued
<1> QED BY <1>2, <1>3

(* The keyword a registration appends is new, and so is its section. *)
LEMMA ExtendedTree ==
  ASSUME TreeInv, NEW s \in handles \cup {Root}, NEW name \in Name,
         NEW type \in ItemType, Room(type)
  PROVE  /\ Apart(Extended(s, NewItem(name, type)))
         /\ Issued(Extended(s, NewItem(name, type)), NextSec(type), nreg + 1)
<1> DEFINE it  == NewItem(name, type)
           its == Extended(s, it)
           n   == Len(items[s]) + 1
<1> USE RegistryAssumption DEF Sec, Root, NULL
<1>1. /\ s \in Sec /\ s <= nsec /\ nsec \in 1..MaxSec /\ nreg \in 0..MaxReg
      /\ items \in [Sec -> Seq(Item)]
  BY DEF TreeInv, IInv, TypeOK
<1>2. /\ it.offset = nreg + 1
      /\ IF type = "VALUE" THEN it.sec = 0 /\ NextSec(type) = nsec
         ELSE it.sec = nsec + 1 /\ NextSec(type) = nsec + 1 /\ nsec + 1 \in Sec
  BY <1>1 DEF NewItem, Child, NextSec, Room
<1>3. it \in Item
  <2>1. Trim[Ky(name)] \in Name
    BY DEF Ky
  <2>2. Child(type) \in Sec \cup {NULL} /\ nreg + 1 \in 1..MaxReg
    BY <1>1 DEF Child, Room
  <2>3. dup_check \in BOOLEAN
    BY DEF TreeInv, IInv, TypeOK
  <2> QED BY <2>1, <2>2, <2>3 DEF NewItem, Item
<1>4. /\ DOMAIN its[s] = DOMAIN items[s] \cup {n} /\ n \notin DOMAIN items[s]
      /\ its[s][n] = it
      /\ \A i \in DOMAIN items[s] : its[s][i] = items[s][i]
      /\ \A t \in Sec : t # s => its[t] = items[t]
  <2>1. its[s] = Append(items[s], it) /\ \A t \in Sec : t # s => its[t] = items[t]
    BY <1>1 DEF Extended
  <2>2. items[s] \in Seq(Item)
    BY <1>1
  <2> HIDE DEF it, its
  <2>3. n \notin DOMAIN items[s]
    BY <2>2
  <2> QED BY <2>1, <2>2, <2>3, <1>3, AppendFacts
<1> HIDE DEF it, its, n
<1>5. ASSUME NEW t \in Sec, NEW i \in DOMAIN its[t]
      PROVE  \/ t = s /\ i = n /\ its[t][i] = it
             \/ i \in DOMAIN items[t] /\ its[t][i] = items[t][i]
  BY <1>4
<1>6. ASSUME NEW t \in Sec, NEW i \in DOMAIN items[t]
      PROVE  /\ items[t][i].offset <= nreg /\ items[t][i].sec <= nsec
             /\ items[t][i].sec # 0 => t < items[t][i].sec
             /\ items[t][i].offset \in Int /\ items[t][i].sec \in Int
  <2>1. items[t] \in Seq(Item)
    BY <1>1
  <2>2. items[t][i] \in Item
    BY <2>1
  <2> QED BY <2>2 DEF TreeInv, Issued, Item
<1>7. Apart(its)
  <2> SUFFICES ASSUME NEW t \in Sec, NEW u \in Sec,
                      NEW i \in DOMAIN its[t], NEW j \in DOMAIN its[u],
                      \/ its[t][i].offset = its[u][j].offset
                      \/ its[t][i].sec = its[u][j].sec /\ its[t][i].sec # NULL
               PROVE  t = u /\ i = j
    BY DEF Apart
  <2>1. CASE i \in DOMAIN items[t] /\ its[t][i] = items[t][i]
             /\ j \in DOMAIN items[u] /\ its[u][j] = items[u][j]
    BY <2>1 DEF TreeInv, Apart
  <2>2. CASE i \in DOMAIN items[t] /\ its[t][i] = items[t][i] /\ its[u][j] = it
    BY <2>2, <1>1, <1>2, <1>6
  <2>3. CASE j \in DOMAIN items[u] /\ its[u][j] = items[u][j] /\ its[t][i] = it
    BY <2>3, <1>1, <1>2, <1>6
  <2> QED BY <2>1, <2>2, <2>3, <1>5
<1>8. Issued(its, NextSec(type), nreg + 1)
  <2>1. ASSUME NEW t \in Sec, NEW i \in DOMAIN its[t]
        PROVE  /\ its[t][i].offset <= nreg + 1 /\ its[t][i].sec <= NextSec(type)
               /\ its[t][i].sec # NULL => t < its[t][i].sec
    <3>1. CASE t = s /\ its[t][i] = it
      BY <3>1, <1>1, <1>2
    <3>2. CASE i \in DOMAIN items[t] /\ its[t][i] = items[t][i]
      BY <3>2, <1>1, <1>2, <1>6
    <3> QED BY <3>1, <3>2, <1>5
  <2>2. \A t \in Sec : t > NextSec(type) => DOMAIN its[t] = {}
    BY <1>1, <1>2, <1>4 DEF TreeInv, Issued
  <2>3. ASSUME NEW c \in 2..NextSec(type)
        PROVE  \E t \in Sec : \E i \in DOMAIN its[t] : its[t][i].sec = c
    <3>1. CASE c \in 2..nsec
      <4>1. PICK t \in Sec : \E i \in DOMAIN items[t] : items[t][i].sec = c
        BY <3>1 DEF TreeInv, Issued
      <4>2. PICK i \in DOMAIN items[t] : items[t][i].sec = c
        BY <4>1
      <4>3. i \in DOMAIN its[t] /\ its[t][i] = items[t][i]
        BY <1>4
      <4> QED BY <4>2, <4>3
    <3>2. CASE c = nsec + 1 /\ type # "VALUE"
      BY <3>2, <1>1, <1>2, <1>4
    <3> QED BY <3>1, <3>2, <1>1, <1>2
  <2> QED BY <2>1, <2>2, <2>3 DEF Issued
<1> QED BY <1>7, <1>8 DEF it, its

LEMMA InitTree == Init => TreeInv
<1> SUFFICES ASSUME Init PROVE TreeInv
  OBVIOUS
<1>1. \A s \in Sec : DOMAIN items[s] = {}
  BY DEF Init
<1> QED BY <1>1, InitInv DEF Init, TreeInv, Apart, Issued

LEMMA NextKeepsTree == TreeInv /\ [Next]_vars => TreeInv'
<1> SUFFICES ASSUME TreeInv, [Next]_vars PROVE TreeInv'
  OBVIOUS
<1> USE RegistryAssumption DEF Sec, Root, NULL
<1>1. IInv /\ IInv' /\ handles \subseteq 2..nsec /\ nsec \in 1..MaxSec
  BY NextKeepsInv DEF TreeInv, IInv, TypeOK
<1>2. CASE Grew
  <2>1. PICK s \in handles \cup {Root}, name \in Name, type \in ItemType :
          /\ Room(type) /\ Insert(s, name, type)
          /\ UNCHANGED <<dup_check, handles, outcome>>
    BY <1>2 DEF Grew
  <2>2. s \in Sec
    BY <1>1
  <2>3. \A t \in Sec : Permuted(items'[t], Extended(s, NewItem(name, type))[t])
    BY <1>1, <2>1, <2>2, InsertPermutes
  <2>4. nsec' = NextSec(type) /\ nreg' = nreg + 1
    BY <2>1 DEF Insert
  <2>5. Apart(items') /\ Issued(items', nsec', nreg')
    BY <2>1, <2>3, <2>4, ExtendedTree, PermutedTree
  <2>6. handles' \subseteq 2..nsec'
    BY <1>1, <2>1, <2>4 DEF NextSec
  <2> QED BY <1>1, <2>5, <2>6 DEF TreeInv
<1>3. CASE Reordered
  <2>1. Apart(items') /\ Issued(items', nsec', nreg')
    BY <1>3, PermutedTree DEF Reordered, TreeInv
  <2>2. ASSUME NEW c \in handles'
        PROVE  c \in 2..nsec
    <3>1. CASE c \notin handles
      <4>1. PICK s \in Sec : \E i \in DOMAIN items[s] : items[s][i].sec = c /\ c # NULL
        BY <1>3, <3>1 DEF Reordered
      <4>2. s < c /\ c <= nsec
        BY <4>1 DEF TreeInv, Issued
      <4>3. c \in Sec
        BY <1>1 DEF IInv, TypeOK
      <4> QED BY <4>2, <4>3
    <3> QED BY <1>1, <3>1
  <2>3. handles' \subseteq 2..nsec'
    BY <1>3, <2>2 DEF Reordered
  <2> QED BY <1>1, <2>1, <2>3 DEF TreeInv
<1> QED BY <1>1, <1>2, <1>3, StepShape

LEMMA SpecTree == Spec => []TreeInv
BY InitTree, NextKeepsTree, PTL DEF Spec

(* However arrays are moved and sorted, each section descriptor the        *)
(* program has created keeps exactly one owner, in an older section, and   *)
(* every pointer handed out is one of them.                                *)
THEOREM RegistryTree == Spec => []OwnershipTree
<1> USE RegistryAssumption DEF Sec, Root, NULL
<1>1. ASSUME TreeInv PROVE OwnershipTree
  <2>1. items \in [Sec -> Seq(Item)] /\ nsec \in 1..MaxSec
    BY <1>1 DEF TreeInv, IInv, TypeOK
  <2>2. ASSUME NEW c \in 2..nsec
        PROVE  \E s \in 1..(c - 1) : \E i \in DOMAIN items[s] : OnlyOwner(s, i, c)
    <3>1. PICK s \in Sec : \E i \in DOMAIN items[s] : items[s][i].sec = c
      BY <1>1 DEF TreeInv, Issued
    <3>2. PICK i \in DOMAIN items[s] : items[s][i].sec = c
      BY <3>1
    <3>3. s < c
      BY <1>1, <3>2 DEF TreeInv, Issued
    <3>4. OnlyOwner(s, i, c)
      BY <1>1, <3>2 DEF TreeInv, Apart, OnlyOwner
    <3> QED BY <3>2, <3>3, <3>4
  <2>3. ASSUME NEW s \in Sec, s > nsec
        PROVE  items[s] = <<>>
    <3>1. DOMAIN items[s] = {}
      BY <1>1, <2>3 DEF TreeInv, Issued
    <3>2. items[s] \in Seq(Item)
      BY <2>1
    <3>3. DOMAIN items[s] = 1..Len(items[s]) /\ Len(items[s]) \in Nat
      BY <3>2
    <3>4. Len(items[s]) = 0
      <4>1. ASSUME Len(items[s]) >= 1 PROVE FALSE
        <5>1. 1 \in DOMAIN items[s]
          BY <3>3, <4>1
        <5> QED BY <3>1, <5>1
      <4> QED BY <3>3, <4>1
    <3> QED BY <3>2, <3>4
  <2> QED BY <1>1, <2>2, <2>3 DEF OwnershipTree, TreeInv
<1> QED BY <1>1, SpecTree, PTL

-----------------------------------------------------------------------------
(* A sequence without repetitions has as many items as indices. *)
LEMMA DistinctCount ==
  ASSUME NEW q \in Seq(Item), \A i, j \in DOMAIN q : q[i] = q[j] => i = j
  PROVE  Len(q) = Cardinality(Range(q))
<1>1. /\ q \in [1..Len(q) -> Range(q)] /\ Len(q) \in Nat /\ DOMAIN q = 1..Len(q)
      /\ \A x \in Range(q) : \E i \in 1..Len(q) : q[i] = x
  BY DEF Range
<1>2. q \in Bijection(1..Len(q), Range(q))
  BY <1>1 DEF Bijection, Injection, Surjection, IsInjective
<1> QED BY <1>1, <1>2, FS_CountingElements DEF ExistsBijection

(* The contents of the arrays after a step. *)
LEMMA ReorderedRange ==
  ASSUME Reordered, NEW t \in Sec
  PROVE  Range(items'[t]) = Range(items[t])
BY PermutedFacts DEF Reordered

LEMMA InsertRange ==
  ASSUME IInv, NEW s \in Sec, NEW name \in Name, NEW type \in ItemType,
         Room(type), Insert(s, name, type)
  PROVE  \A t \in Sec : Range(items'[t]) = Range(items[t]) \cup
                          (IF t = s THEN {NewItem(name, type)} ELSE {})
<1> DEFINE it == NewItem(name, type)
<1>1. /\ it \in Item /\ items \in [Sec -> Seq(Item)]
      /\ \A t \in Sec : Permuted(items'[t], Extended(s, it)[t])
  BY InsertPermutes DEF IInv, TypeOK
<1> HIDE DEF it
<1>2. ASSUME NEW t \in Sec
      PROVE  Range(Extended(s, it)[t]) = Range(items[t]) \cup (IF t = s THEN {it} ELSE {})
  <2>1. CASE t # s
    BY <1>1, <2>1 DEF Extended
  <2>2. CASE t = s
    <3>1. Extended(s, it)[s] = Append(items[s], it) /\ items[s] \in Seq(Item)
      BY <1>1 DEF Extended
    <3>2. Range(Append(items[s], it)) = Range(items[s]) \cup {it}
      <4> DEFINE q == items[s]
      <4>1. /\ Append(q, it)[Len(q) + 1] = it
            /\ \A i \in DOMAIN q : Append(q, it)[i] = q[i]
            /\ DOMAIN Append(q, it) = DOMAIN q \cup {Len(q) + 1}
        BY <1>1, <3>1, AppendFacts
      <4> QED BY <4>1 DEF Range
    <3> QED BY <2>2, <3>1, <3>2
  <2> QED BY <2>1, <2>2
<1>3. ASSUME NEW t \in Sec
      PROVE  Range(items'[t]) = Range(Extended(s, it)[t])
  BY <1>1, PermutedFacts
<1> QED BY <1>2, <1>3 DEF it

(* Whatever is sorted, moved by realloc or registered next, a keyword once *)
(* registered stays in its section, unaltered and once.                    *)
THEOREM RegistryKeepsRegistrations == Spec => RegistrationsSurvive
<1> DEFINE Kept == \A s \in Sec :
                     /\ Range(items[s]) \subseteq Range(items'[s])
                     /\ Len(items'[s]) = Cardinality(Range(items'[s]))
<1>1. ASSUME TreeInv, [Next]_vars PROVE Kept
  <2> SUFFICES ASSUME NEW s \in Sec
               PROVE  /\ Range(items[s]) \subseteq Range(items'[s])
                      /\ Len(items'[s]) = Cardinality(Range(items'[s]))
    OBVIOUS
  <2>1. TreeInv' /\ IInv
    BY <1>1, NextKeepsTree DEF TreeInv
  <2>2. items'[s] \in Seq(Item)
    BY <2>1 DEF TreeInv, IInv, TypeOK
  <2>3. \A i, j \in DOMAIN items'[s] : items'[s][i] = items'[s][j] => i = j
    BY <2>1 DEF TreeInv, Apart
  <2>4. Range(items[s]) \subseteq Range(items'[s])
    <3>1. CASE Reordered
      BY <3>1, ReorderedRange
    <3>2. CASE Grew
      <4>1. PICK t \in handles \cup {Root}, name \in Name, type \in ItemType :
              Room(type) /\ Insert(t, name, type)
        BY <3>2 DEF Grew
      <4>2. t \in Sec
        BY <2>1, RegistryAssumption DEF IInv, TypeOK, Sec, Root
      <4> QED BY <2>1, <4>1, <4>2, InsertRange
    <3> QED BY <1>1, <2>1, <3>1, <3>2, StepShape
  <2> QED BY <2>2, <2>3, <2>4, DistinctCount
<1> QED BY <1>1, SpecTree, PTL DEF Spec, RegistrationsSurvive

-----------------------------------------------------------------------------
(* Spellings without blanks around them are stored as they are checked.    *)
(* The run registry_padded shows what happens to the others.               *)
Unpadded == \A n \in Name : Trim[n] = n

(* A registration that passed the duplicate query finds its key unused. *)
LEMMA AcceptedIsNew ==
  ASSUME IInv, Unpadded, dup_check, NEW s \in Sec, NEW name \in Name, NEW type,
         Accepted(s, name)
  PROVE  \A i \in DOMAIN items[s] : items[s][i].key # NewItem(name, type).key
<1>1. items[s] \in Seq(Item) /\ (sorted[s] => Ordered(items[s]))
  BY DEF IInv, TypeOK, SortedSound
<1>2. NewItem(name, type).key = Ky(name)
  BY RegistryAssumption DEF NewItem, Unpadded, Ky
<1> SUFFICES ASSUME NEW i \in DOMAIN items[s], items[s][i].key = Ky(name)
             PROVE  FALSE
  BY <1>2
<1>3. Queried(s)
  BY <1>1 DEF Queried
<1>4. Ordered(items[s]) /\ {} \in BSearch(items[s], Ky(name))
  BY <1>1, <1>3 DEF Accepted
<1>5. items[s][i] \in Matches(items[s], Ky(name))
  BY DEF Matches
<1> QED BY <1>4, <1>5 DEF BSearch

LEMMA PermutedUnique ==
  ASSUME IInv, NEW old, \A t \in Sec : Permuted(items'[t], old[t]),
         \A t \in Sec : \A i, j \in DOMAIN old[t] :
           i # j /\ old[t][i].checked /\ old[t][j].checked => old[t][i].key # old[t][j].key
  PROVE  CheckedKeysUnique'
<1> SUFFICES ASSUME NEW t \in Sec, NEW i \in DOMAIN items'[t], NEW j \in DOMAIN items'[t],
                    i # j, items'[t][i].checked, items'[t][j].checked
             PROVE  items'[t][i].key # items'[t][j].key
  BY DEF CheckedKeysUnique
<1>1. PICK p \in [DOMAIN old[t] -> DOMAIN old[t]] :
        /\ \A k \in DOMAIN old[t] : items'[t][k] = old[t][p[k]]
        /\ \A k, m \in DOMAIN old[t] : p[k] = p[m] => k = m
  BY PermutedFacts
<1>2. i \in DOMAIN old[t] /\ j \in DOMAIN old[t]
  BY PermutedFacts
<1> QED BY <1>1, <1>2

LEMMA NextKeepsUnique ==
  Unpadded /\ IInv /\ CheckedKeysUnique /\ [Next]_vars => CheckedKeysUnique'
<1> SUFFICES ASSUME Unpadded, IInv, CheckedKeysUnique, [Next]_vars
             PROVE  CheckedKeysUnique'
  OBVIOUS
<1>1. CASE Reordered
  BY <1>1, PermutedUnique DEF Reordered, CheckedKeysUnique
<1>2. CASE Grew
  <2>1. PICK s \in handles \cup {Root}, name \in Name, type \in ItemType :
          Room(type) /\ Accepted(s, name) /\ Insert(s, name, type)
    BY <1>2 DEF Grew
  <2> DEFINE it == NewItem(name, type)
             its == Extended(s, it)
  <2>2. s \in Sec
    BY RegistryAssumption DEF IInv, TypeOK, Sec, Root
  <2>3. it \in Item /\ \A t \in Sec : Permuted(items'[t], its[t])
    BY <2>1, <2>2, InsertPermutes
  <2>4. it.checked = dup_check /\ (dup_check => \A i \in DOMAIN items[s] : items[s][i].key # it.key)
    BY <2>1, <2>2, AcceptedIsNew DEF NewItem
  <2> HIDE DEF it
  <2>5. ASSUME NEW t \in Sec, NEW i \in DOMAIN its[t], NEW j \in DOMAIN its[t],
               i # j, its[t][i].checked, its[t][j].checked
        PROVE  its[t][i].key # its[t][j].key
    <3>1. items \in [Sec -> Seq(Item)]
      BY DEF IInv, TypeOK
    <3>2. CASE t # s
      <4>1. its[t] = items[t]
        BY <3>1, <3>2 DEF Extended
      <4> QED BY <2>5, <4>1 DEF CheckedKeysUnique
    <3>3. CASE t = s
      <4> DEFINE n == Len(items[s]) + 1
      <4>1. /\ its[s][n] = it
            /\ \A k \in DOMAIN items[s] : its[s][k] = items[s][k]
            /\ DOMAIN its[s] = DOMAIN items[s] \cup {n}
        <5>1. its[s] = Append(items[s], it) /\ items[s] \in Seq(Item)
          BY <2>2, <3>1 DEF Extended
        <5> QED BY <5>1, <2>3, AppendFacts
      <4> HIDE DEF n, its
      <4>2. CASE i \in DOMAIN items[s] /\ j \in DOMAIN items[s]
        BY <2>2, <2>5, <3>3, <4>1, <4>2 DEF CheckedKeysUnique
      <4>3. CASE i = n /\ j \in DOMAIN items[s]
        BY <2>4, <2>5, <3>3, <4>1, <4>3
      <4>4. CASE j = n /\ i \in DOMAIN items[s]
        BY <2>4, <2>5, <3>3, <4>1, <4>4
      <4> QED BY <2>5, <3>3, <4>1, <4>2, <4>3, <4>4
    <3> QED BY <3>2, <3>3
  <2> HIDE DEF its
  <2> QED BY <2>3, <2>5, PermutedUnique
<1> QED BY <1>1, <1>2, StepShape

(* Where no spelling has blanks around it, two keywords registered with    *)
(* dup_check on never share a key in one section, whichever keywords were  *)
(* registered unchecked between them.                                      *)
THEOREM RegistryKeysUnique ==
  ASSUME Unpadded
  PROVE  Spec => []CheckedKeysUnique
<1>1. Init => CheckedKeysUnique
  BY DEF Init, CheckedKeysUnique
<1>2. IInv /\ CheckedKeysUnique /\ [Next]_vars => CheckedKeysUnique'
  BY NextKeepsUnique
<1> QED BY <1>1, <1>2, SpecInv, PTL DEF Spec

-----------------------------------------------------------------------------
(* The refinement, call by call: first what a search answers on an array   *)
(* in order, then the step of the store each call maps to.                 *)
LEMMA SearchIsExact ==
  ASSUME NEW q \in Seq(Item), NEW k
  PROVE  /\ \A h \in BSearch(q, k) : h # {} =>
              \E x \in Range(q) : h = {x} /\ x.key = k
         /\ Ordered(q) /\ {} \in BSearch(q, k) => \A x \in Range(q) : x.key # k
<1>1. \A x : x \in Matches(q, k) <=> x \in Range(q) /\ x.key = k
  BY DEF Matches, Range
<1> QED BY <1>1 DEF BSearch

StoreStep == Store!Next \/ UNCHANGED Store!vars

LEMMA GrewRefines ==
  ASSUME TreeInv, Unpadded, Running, Grew
  PROVE  StoreStep
<1>1. PICK s \in handles \cup {Root}, name \in Name, type \in ItemType :
        /\ Room(type) /\ Accepted(s, name) /\ Insert(s, name, type)
        /\ UNCHANGED <<dup_check, handles, outcome>>
  BY DEF Grew
<1> DEFINE it == NewItem(name, type)
<1>2. IInv /\ s \in Sec /\ items \in [Sec -> Seq(Item)] /\ nsec \in Nat /\ nreg \in Nat
  BY RegistryAssumption DEF TreeInv, IInv, TypeOK, Sec, Root
<1>3. \A t \in Sec : Range(items'[t]) = Range(items[t]) \cup (IF t = s THEN {it} ELSE {})
  BY <1>1, <1>2, InsertRange
<1>4. /\ it \in Item /\ it.offset = nreg + 1
      /\ it.type # "VALUE" => it.sec = nsec + 1
  BY <1>1, <1>2, InsertPermutes DEF NewItem, Child
<1>5. ASSUME NEW t \in Sec, NEW y \in Range(items[t])
      PROVE  y.offset # it.offset /\ (it.type = "VALUE" \/ y.sec # it.sec)
  <2>1. PICK i \in DOMAIN items[t] : y = items[t][i]
    BY DEF Range
  <2>2. y.offset <= nreg /\ y.sec <= nsec
    BY <2>1 DEF TreeInv, Issued
  <2>3. y \in Item
    BY <1>2, <2>1
  <2>4. y.offset \in Int /\ y.sec \in Int
    BY <2>3, RegistryAssumption DEF Item, Sec, NULL
  <2> HIDE DEF it
  <2> QED BY <1>2, <1>4, <2>2, <2>4
<1>6. dup_check => \A x \in Range(items[s]) : x.key # it.key
  BY <1>1, <1>2, AcceptedIsNew DEF Range
<1> DEFINE C == [t \in Sec |-> Range(items[t])]
           D == [t \in Sec |-> Range(items'[t])]
<1> HIDE DEF it
<1>7. D = [C EXCEPT ![s] = @ \cup {it}]
  BY <1>2, <1>3
<1>8. it \in D[s]
  BY <1>2, <1>3
<1>9. Store!Fresh(it)
  BY <1>5 DEF Store!Fresh
<1>10. dup_check => Store!Under(s, it.key) = {}
  BY <1>2, <1>6 DEF Store!Under
<1>11. Store!Add(s)
  BY <1>1, <1>4, <1>7, <1>8, <1>9, <1>10 DEF Store!Add, Store!Running, Running
<1> QED BY <1>2, <1>11 DEF StoreStep, Store!Next

(* Reordering the arrays is invisible to the store. *)
LEMMA ReorderedStutters ==
  ASSUME \A t \in Sec : Permuted(items'[t], items[t])
  PROVE  [t \in Sec |-> Range(items'[t])] = [t \in Sec |-> Range(items[t])]
BY PermutedFacts

LEMMA GetSectionRefines ==
  ASSUME IInv, NEW s \in Sec, NEW name \in Name, GetSection(s, name)
  PROVE  StoreStep
<1>1. \A t \in Sec : Permuted(items'[t], items[t])
  BY SortOrNot DEF GetSection
<1>2. [t \in Sec |-> Range(items'[t])] = [t \in Sec |-> Range(items[t])]
  BY <1>1, ReorderedStutters
<1>3. /\ items'[s] \in Seq(Item) /\ Ordered(items'[s]) /\ OwnersTyped(items')
      /\ Range(items'[s]) = Range(items[s])
  BY <1>1, SortKeepsInv, PermutedFacts DEF GetSection
<1>4. PICK h \in BSearch(items'[s], name) :
        /\ outcome' = IF h = {} THEN Ended("nullDeref", {<<s, name>>}) ELSE outcome
        /\ handles' = handles \cup {x.sec : x \in {y \in h : y.type = "SEC"}}
  BY DEF GetSection
<1>5. Running /\ UNCHANGED dup_check
  BY DEF GetSection
<1>6. CASE h = {}
  <2>1. Store!Under(s, name) = {}
    BY <1>3, <1>6, SearchIsExact DEF Store!Under
  <2>2. outcome' = [how |-> "nullDeref", asked |-> {<<s, name>>}] /\ handles' = handles
    BY <1>4, <1>6 DEF Ended
  <2>3. Store!Miss(s, name)
    BY <1>2, <1>5, <2>1, <2>2 DEF Store!Miss, Store!Running, Store!Ends, Running
  <2> QED BY <2>3 DEF StoreStep, Store!Next
<1>7. CASE h # {}
  <2>1. PICK x \in Range(items[s]) : h = {x} /\ x.key = name
    BY <1>3, <1>7, SearchIsExact
  <2>2. UNCHANGED outcome
    BY <1>4, <1>7
  <2>3. CASE x.type = "SEC"
    <3>1. x \in Store!Under(s, name)
      BY <2>1 DEF Store!Under
    <3>2. handles' = handles \cup {x.sec}
      BY <1>4, <2>1, <2>3
    <3>3. Store!Hand(s, name)
      BY <1>2, <1>5, <2>2, <2>3, <3>1, <3>2 DEF Store!Hand, Store!Running, Running
    <3> QED BY <3>3 DEF StoreStep, Store!Next
  <2>4. CASE x.type # "SEC"
    <3>1. handles' = handles
      BY <1>4, <2>1, <2>4
    <3> QED BY <1>2, <1>5, <2>2, <3>1 DEF StoreStep, Store!vars
  <2> QED BY <2>3, <2>4
<1> QED BY <1>6, <1>7

LEMMA QueryRefines ==
  ASSUME IInv, NEW s \in Sec, NEW name \in Name, QueryOf(s, name)
  PROVE  StoreStep
<1>0. items \in [Sec -> Seq(Item)]
  BY DEF IInv, TypeOK
<1>1. \A t \in Sec : Permuted(items'[t], items[t])
  BY <1>0, SortOrNot DEF QueryOf, Query, SecQuery
<1>2. [t \in Sec |-> Range(items'[t])] = [t \in Sec |-> Range(items[t])]
  BY <1>1, ReorderedStutters
<1>3. /\ items'[s] \in Seq(Item) /\ OwnersTyped(items')
      /\ Range(items'[s]) = Range(items[s])
  <2>1. CASE SecSort(items, sorted, s)
    BY <1>0, <1>1, <2>1, SortKeepsInv, PermutedFacts
  <2>2. CASE UNCHANGED items
    BY <1>0, <2>2 DEF IInv, RootIsPrivate, OwnersTyped
  <2> QED BY <2>1, <2>2 DEF QueryOf, Query, SecQuery
<1>4. PICK h \in BSearch(items'[s], name) :
        handles' = handles \cup {x.sec : x \in {y \in h : y.sec # NULL}}
  BY DEF QueryOf, Query, SecQuery, Answered
<1>5. Running /\ UNCHANGED <<dup_check, outcome>>
  BY DEF QueryOf, Query, SecQuery
<1>6. CASE \A y \in h : y.sec = NULL
  <2>1. handles' = handles
    BY <1>4, <1>6
  <2> QED BY <1>2, <1>5, <2>1 DEF StoreStep, Store!vars
<1>7. CASE \E y \in h : y.sec # NULL
  <2>1. PICK x \in Range(items[s]) : h = {x} /\ x.key = name
    BY <1>3, <1>7, SearchIsExact
  <2>2. x.sec # NULL /\ handles' = handles \cup {x.sec}
    BY <1>4, <1>7, <2>1
  <2>3. x.type # "VALUE"
    BY <1>0, <2>2 DEF IInv, RootIsPrivate, OwnersTyped, Range
  <2>4. x \in Store!Under(s, name)
    BY <1>0, <2>1 DEF Store!Under
  <2>5. Store!Hand(s, name)
    BY <1>2, <1>5, <2>2, <2>3, <2>4 DEF Store!Hand, Store!Running, Running
  <2> QED BY <1>0, <2>5 DEF StoreStep, Store!Next
<1> QED BY <1>6, <1>7

(* Calls that end the process, and the settings *)
LEMMA OthersRefine ==
  ASSUME IInv, UNCHANGED items,
         \/ \E s \in Sec, name \in Name :
              RegisterDuplicate(s, name) \/ RegisterVecWithoutInfo(s, name)
         \/ \E s \in Sec : \/ RegisterUnsorted(s) \/ SecQueryUnsorted(s)
                           \/ LookupInEmpty(s)
         \/ Configure \/ Terminated \/ UNCHANGED vars
  PROVE  StoreStep
<1>1. [t \in Sec |-> Range(items'[t])] = [t \in Sec |-> Range(items[t])]
  OBVIOUS
<1>2. ASSUME NEW s \in Sec, NEW name \in Name, RegisterDuplicate(s, name)
      PROVE  StoreStep
  <2>1. PICK h \in BSearch(items[s], Ky(name)) : h # {}
    BY <1>2 DEF RegisterDuplicate
  <2>2. items[s] \in Seq(Item) /\ Ky(name) \in Name
    BY RegistryAssumption DEF IInv, TypeOK, Ky
  <2>3. Store!Under(s, Ky(name)) # {}
    BY <2>1, <2>2, SearchIsExact DEF Store!Under
  <2>4. Store!Refuse(s, Ky(name))
    BY <1>1, <1>2, <2>3 DEF RegisterDuplicate, Queried, Exit, Ended, Running,
         Store!Refuse, Store!Running, Store!Ends
  <2> QED BY <2>2, <2>4 DEF StoreStep, Store!Next
<1>3. ASSUME NEW how \in {"unsorted", "abort"}, Running, Exit(how, {})
      PROVE  StoreStep
  <2>1. Store!GiveUp
    BY <1>1, <1>3 DEF Exit, Ended, Running, Store!GiveUp, Store!Running, Store!Ends
  <2> QED BY <2>1 DEF StoreStep, Store!Next
<1>4. ASSUME NEW s \in Sec, NEW name \in Name, RegisterVecWithoutInfo(s, name)
      PROVE  StoreStep
  BY <1>3, <1>4 DEF RegisterVecWithoutInfo
<1>5. ASSUME NEW s \in Sec, \/ RegisterUnsorted(s) \/ SecQueryUnsorted(s)
                            \/ LookupInEmpty(s)
      PROVE  StoreStep
  BY <1>3, <1>5 DEF RegisterUnsorted, SecQueryUnsorted, LookupInEmpty
<1>6. CASE SetDupCheck
  <2>1. Store!SetChecking
    BY <1>1, <1>6 DEF SetDupCheck, Settings, Running, Store!SetChecking, Store!Running
  <2> QED BY <2>1 DEF StoreStep, Store!Next
<1>7. CASE SetCaseSensitive \/ Terminated \/ UNCHANGED vars
  BY <1>1, <1>7
     DEF SetCaseSensitive, Settings, Terminated, vars, StoreStep, Store!vars
<1> QED BY <1>2, <1>4, <1>5, <1>6, <1>7 DEF Configure

LEMMA NextRefines ==
  TreeInv /\ Unpadded /\ [Next]_vars => StoreStep
<1> SUFFICES ASSUME TreeInv, Unpadded, [Next]_vars PROVE StoreStep
  OBVIOUS
<1>1. IInv /\ handles \subseteq Sec /\ Root \in Sec
  BY RegistryAssumption DEF TreeInv, IInv, TypeOK, Sec, Root
<1>2. ASSUME NEW s \in handles \cup {Root}, NEW name \in Name, NEW type \in ItemType,
             \/ s = Root /\ Register(name, type)
             \/ s \in handles /\ SecRegisterOffset(s, name, type)
      PROVE  StoreStep
  <2>1. Running /\ Grew
    BY <1>2 DEF Register, SecRegisterOffset, Grew
  <2> QED BY <2>1, GrewRefines
<1>3. ASSUME NEW s \in Sec, NEW name \in Name, GetSection(s, name)
      PROVE  StoreStep
  BY <1>1, <1>3, GetSectionRefines
<1>4. ASSUME NEW s \in Sec, NEW name \in Name, QueryOf(s, name)
      PROVE  StoreStep
  BY <1>1, <1>4, QueryRefines
<1>5. CASE Sort
  <2>1. \A t \in Sec : Permuted(items'[t], items[t])
    BY <1>1, <1>5, SortOrNot DEF Sort
  <2>2. [t \in Sec |-> Range(items'[t])] = [t \in Sec |-> Range(items[t])]
    BY <2>1, ReorderedStutters
  <2> QED BY <1>5, <2>2 DEF Sort, StoreStep, Store!vars
<1>6. ASSUME NEW s \in Sec, NEW name \in Name,
             RegisterDuplicate(s, name) \/ RegisterVecWithoutInfo(s, name)
      PROVE  StoreStep
  BY <1>1, <1>6, OthersRefine DEF RegisterDuplicate, RegisterVecWithoutInfo, Exit
<1>7. ASSUME NEW s \in Sec, \/ RegisterUnsorted(s) \/ SecQueryUnsorted(s)
                            \/ LookupInEmpty(s)
      PROVE  StoreStep
  BY <1>1, <1>7, OthersRefine DEF RegisterUnsorted, SecQueryUnsorted, LookupInEmpty, Exit
<1>8. CASE Configure \/ Terminated \/ UNCHANGED vars
  BY <1>1, <1>8, OthersRefine
     DEF Configure, SetDupCheck, SetCaseSensitive, Settings, Terminated, vars
<1> QED BY <1>1, <1>2, <1>3, <1>4, <1>5, <1>6, <1>7, <1>8 DEF Next, Use, QueryOf

(* The registry implements the store: whatever is sorted and when, every   *)
(* duplicate check and every lookup is answered from exactly the keywords  *)
(* registered so far, for spellings without blanks around them.            *)
THEOREM RegistryImplementsStore ==
  ASSUME Unpadded
  PROVE  Spec => ImplementsStore
<1>1. Init => Store!Init
  <2> SUFFICES ASSUME Init PROVE Store!Init
    OBVIOUS
  <2>1. [s \in Sec |-> Range(items[s])] = [s \in Sec |-> {}]
    BY DEF Init, Range
  <2> QED BY <2>1 DEF Init, Ended, Store!Init
<1>2. TreeInv /\ [Next]_vars => [Store!Next]_(Store!vars)
  BY NextRefines DEF StoreStep
<1> QED BY <1>1, <1>2, SpecTree, PTL DEF Spec, ImplementsStore, Store!Spec
=============================================================================
